---- MODULE Spec2Model ----
(***************************************************************************)
(* A model of the fiber-optic-gyroscope workflow of the hardware package:  *)
(* Gyro.tombstone with its calibration steps, the collector thread         *)
(* (Gyro.detector), the convergence checker thread (Gyro.adev_checker),    *)
(* and the NI_9215 data acquisition unit with its asynchronous task,       *)
(* callback, queue and generator.                                          *)
(*                                                                         *)
(* Conventions: Python None, 0 and False are all written 0 where the code  *)
(* only tests truthiness.  Angles are in half degrees, sensitivities in    *)
(* millivolts, time constants in milliseconds, so that every quantity the  *)
(* code computes on the modelled inputs is an integer.                     *)
(***************************************************************************)
EXTENDS Integers, Sequences, FiniteSets, TLC

(***************************************************************************)
(* Bounds of the model.                                                    *)
(***************************************************************************)
MaxRuns == 2          \* calls of Gyro.tombstone in one process
MaxDuration == 2      \* largest max_duration argument, in seconds
MaxTasks == 2         \* asynchronous DAQ tasks created by direct read() calls
MaxPolls == 2         \* the count of consecutive too-little-data polls saturates here
MaxCommands == 3      \* commands the instrument drivers send in one session
MaxResources == 3     \* resources the VISA resource manager lists
MaxFgCommands == 2    \* commands written to the function generator in one session

\* The callback is modelled for this many chunks: one more than the collector
\* can ever consume, so the collector never starves because of the cap.
MaxChunks == MaxDuration + 1

(***************************************************************************)
(* Program constants.                                                      *)
(***************************************************************************)
DefaultOversampling == 10     \* read(): oversampling_ratio=10
DefaultAsyncRate == 10        \* tombstone(): if not rate: rate = 10
DefaultMaxDuration == 86400   \* tombstone(): max_duration = 24*60*60
Threshold == 5                \* adev_checker(): threshold=5 (dB)
MinFrequency == 2             \* _get_rate(): rate * oversampling_ratio < 2
CalSeconds == 3               \* get_scale_factor(): daq.read(seconds=3, ...)
CalTimeConstant == 10         \* get_scale_factor(): lia.time_constant = 0.01
DefaultCalSensitivity == 300  \* get_scale_factor(): data.get('sensitivity', .3)
AutophaseSensitivity == 30    \* autophase(): sensitivity=0.03
AutophaseMove == 4            \* autophase(): rot.ccw(2, ...), in half degrees
CalMove == 9                  \* get_scale_factor(): velocity * 4.5, in half degrees

VARIABLES
    \* NI_9215
    daq_task,        \* self.task: 0 (None) or the id of the task object
    daq_rate,        \* self.rate: 0 (None) or the default rate
    daq_max_voltage, \* self.max_voltage: 0 (None) or the default scale
    hw,              \* the last read() call and the hardware read it led to
    daq_queue,       \* self.queue: 0 (not set) or the id of the current queue
    daq_result,      \* what the last direct read()/stop() call returned or raised
    tasks,           \* the asynchronous tasks ever created, by id
    ntasks,          \* how many asynchronous tasks were created
    queues,          \* queue id -> the chunks waiting in that queue.Queue
    delivered,       \* generator id -> the chunks next() has returned, in order
    produced,        \* chunks put by the callback so far (production order)
    \* instruments
    rot_angle, rot_velocity, rot_workers, lia_sensitivity, lia_time_constant,
    \* Gyro.tombstone in the calling thread
    main_pc, args, locals, runs, trace, tmb, gyro_scale_factor,
    calibrations, acq_reads, run_reads, run_workers, threads_started,
    \* the tombstone run's threads and shared objects
    det_pc, det_gen, det_i, det_chunk, chk_pc, poll, iste_run,
    stop_data, stop_adev, buf, write_count, buf_writers, notifications,
    \* the instrument drivers used directly
    bus,             \* the commands written to the instruments, in order
    drv_result,      \* the last driver call: what was called and how it ended
    fg,              \* the function generator: which model, and its registers
    fg_result,       \* the last call on the function generator and how it ended
    awg2,            \* the SRS_DS345 object: its instance attributes
    status_out,      \* what the last get_status returned and printed
    log,             \* the records written to the log file, oldest first
    \* import of the package
    visa_bus,        \* rm.list_resources(): the resources on the bus
    imp              \* the import: position, resources_dict, wrapper objects

daqVars == <<daq_task, daq_rate, daq_max_voltage, hw, daq_queue, daq_result,
             tasks, ntasks, queues, delivered, produced>>
instVars == <<rot_angle, rot_velocity, rot_workers, lia_sensitivity,
              lia_time_constant>>
mainVars == <<main_pc, args, locals, runs, trace, tmb, gyro_scale_factor,
              calibrations, acq_reads, run_reads, run_workers, threads_started>>
threadVars == <<det_pc, det_gen, det_i, det_chunk, chk_pc, poll, iste_run,
                stop_data, stop_adev, buf, write_count, buf_writers, notifications>>
drvVars == <<bus, drv_result, fg, fg_result, awg2, status_out, log>>
impVars == <<visa_bus, imp>>
extVars == <<drvVars, impVars>>
vars == <<daqVars, instVars, mainVars, threadVars, extVars>>

Max(a, b) == IF a >= b THEN a ELSE b
Min(a, b) == IF a <= b THEN a ELSE b

RECURSIVE Pow(_, _)
Pow(b, e) == IF e = 0 THEN 1 ELSE b * Pow(b, e - 1)

(***************************************************************************)
(* NI_9215 (data_acquisition_units.py)                                     *)
(***************************************************************************)
NoTask == [seconds |-> 0, rate |-> 0, oversampling_ratio |-> 0, sample_size |-> 0,
           max_voltage |-> 0, asynchronous |-> FALSE, state |-> "none"]

\* No read() call was made yet.
NoRead == [impl |-> "none", seconds |-> 0, max_voltage_arg |-> 0, timeout_arg |-> 0,
           timeout |-> 0, scale |-> 0, freq |-> 0, error |-> "none"]

NoResult == [kind |-> "none", val |-> 0]

\* A task is running in the driver.  The device has one analog input channel
\* (ai0), so read() is called only while no task runs on it.
TaskRunning == \E t \in 1..MaxTasks : tasks[t].state = "running"

\* _get_rate: the effective rate, or a ValueError.  .1/lia.time_constant is
\* 100/time_constant with the time constant in milliseconds.
GetRate(rate, oversampling_ratio) ==
    IF rate # 0 /\ oversampling_ratio # 0 /\ rate * oversampling_ratio < MinFrequency
    THEN [raised |-> TRUE, rate |-> 0]
    ELSE IF rate # 0 THEN [raised |-> FALSE, rate |-> rate]
    ELSE IF daq_rate # 0 THEN [raised |-> FALSE, rate |-> daq_rate]
    ELSE [raised |-> FALSE, rate |-> Max(2, 100 \div lia_time_constant)]

\* _get_max_voltage: the argument, else the object's own, else the lock-in
\* amplifier's sensitivity.
GetMaxVoltage(max_voltage) ==
    IF max_voltage # 0 THEN max_voltage
    ELSE IF daq_max_voltage # 0 THEN daq_max_voltage
    ELSE lia_sensitivity

\* FOG_DAQ_Task.__init__: sample_size = int(seconds * rate * oversampling_ratio)
FOG_DAQ_Task(seconds, rate, oversampling_ratio, max_voltage, asynchronous) ==
    [seconds |-> seconds, rate |-> rate, oversampling_ratio |-> oversampling_ratio,
     sample_size |-> seconds * rate * oversampling_ratio,
     max_voltage |-> max_voltage, asynchronous |-> asynchronous, state |-> "running"]

\* FOG_DAQ_Task.run reads len(raw_data) samples and downsamples them by means
\* over groups of oversampling_ratio: the length of the array it hands on.
ChunkLenNoDownsample(task) == task.sample_size
ChunkLen(task) == task.sample_size \div task.oversampling_ratio

\* The timeout FOG_DAQ_Task.run gives to ReadAnalogF64 (line 235).
NoTimeout == -1
RunTimeout == NoTimeout

\* NI_9215.read with all its arguments.  fault is what the driver does:
\* "none", or a DAQError raised by StartTask ("start") or by ReadAnalogF64
\* inside run ("read").  Nothing in read catches it: the task object stays
\* in self.task, neither stopped nor cleared.  daq_result' tells the caller
\* what came back.  Line 111 replaces self.task without stopping the task it
\* held: when the new task starts although self.task held one, the driver
\* binding has released the old task object and with it the channel.
NI_9215_read(seconds, rate, max_voltage, timeout, oversampling_ratio, asynchronous, fault) ==
    LET r == GetRate(rate, oversampling_ratio)
        mv == GetMaxVoltage(max_voltage)
        t == ntasks + 1
        released == IF daq_task # 0
                    THEN [tasks EXCEPT ![daq_task].state = "cleared"]
                    ELSE tasks
        call == [impl |-> "data_acquisition_units", seconds |-> seconds,
                 max_voltage_arg |-> max_voltage, timeout_arg |-> timeout,
                 timeout |-> 0, scale |-> 0, freq |-> 0, error |-> "none"]
    IN  IF r.raised
        THEN /\ daq_result' = [kind |-> "ValueError", val |-> 0]
             /\ hw' = [call EXCEPT !.error = "ValueError"]
             /\ UNCHANGED <<daq_task, daq_rate, daq_max_voltage, daq_queue, tasks,
                            ntasks, queues, delivered, produced>>
        ELSE IF fault # "none"
        THEN /\ ntasks' = t
             /\ tasks' = [tasks EXCEPT ![t] =
                    [FOG_DAQ_Task(seconds, r.rate, oversampling_ratio, mv, asynchronous)
                        EXCEPT !.state = IF fault = "start" THEN "created"
                                         ELSE "running"]]
             /\ daq_task' = t
             /\ daq_queue' = IF asynchronous THEN t ELSE daq_queue
             /\ queues' = IF asynchronous THEN [queues EXCEPT ![t] = <<>>] ELSE queues
             /\ daq_result' = [kind |-> "DAQError", val |-> 0]
             /\ hw' = [call EXCEPT !.freq = r.rate * oversampling_ratio,
                                   !.timeout = IF fault = "read" THEN RunTimeout ELSE 0,
                                   !.error = "propagated"]
             /\ UNCHANGED <<daq_rate, daq_max_voltage, delivered, produced>>
        ELSE IF asynchronous
        THEN /\ ntasks' = t
             /\ tasks' = [released EXCEPT ![t] =
                    FOG_DAQ_Task(seconds, r.rate, oversampling_ratio, mv, TRUE)]
             /\ daq_task' = t
             /\ daq_queue' = t
             /\ queues' = [queues EXCEPT ![t] = <<>>]
             /\ daq_result' = [kind |-> "generator", val |-> t]
             /\ hw' = [call EXCEPT !.freq = r.rate * oversampling_ratio]
             /\ UNCHANGED <<daq_rate, daq_max_voltage, delivered, produced>>
        ELSE /\ daq_task' = 0
             /\ daq_result' = [kind |-> "data", val |->
                    ChunkLen(FOG_DAQ_Task(seconds, r.rate, oversampling_ratio, mv, FALSE))]
             /\ tasks' = released
             /\ hw' = [call EXCEPT !.freq = r.rate * oversampling_ratio,
                                   !.timeout = RunTimeout, !.scale = mv]
             /\ UNCHANGED <<daq_rate, daq_max_voltage, daq_queue, ntasks, queues,
                            delivered, produced>>

\* read as the gyro workflow calls it: max_voltage and timeout left at their
\* defaults, and a driver that works.
read(seconds, rate, oversampling_ratio, asynchronous) ==
    NI_9215_read(seconds, rate, 0, 0, oversampling_ratio, asynchronous, "none")

\* NI_9215.read of the older module NI_9215.py, which has no oversampling and
\* no asynchronous mode.  Lines 61-70: the rate.
LegacyRate(rate) ==
    IF rate # 0 /\ rate < MinFrequency THEN [raised |-> TRUE, rate |-> 0]
    ELSE IF rate # 0 THEN [raised |-> FALSE, rate |-> rate]
    ELSE IF daq_rate # 0 THEN [raised |-> FALSE, rate |-> daq_rate]
    ELSE [raised |-> FALSE, rate |-> Max(2, 100 \div lia_time_constant)]

\* lines 76-79: the object's own max_voltage when no argument is given and the
\* object has one, else the lock-in amplifier's sensitivity.
LegacyMaxVoltage(max_voltage) ==
    IF max_voltage = 0 /\ daq_max_voltage # 0 THEN daq_max_voltage
    ELSE lia_sensitivity

\* lines 94-95
LegacyTimeout(timeout, seconds) == IF timeout = 0 THEN seconds ELSE timeout

\* lines 93-125: a DAQError is printed, the task is stopped and cleared in the
\* finally block, and the scaled buffer is returned.
legacy_read(seconds, rate, max_voltage, timeout, fault) ==
    LET r == LegacyRate(rate)
        call == [impl |-> "NI_9215", seconds |-> seconds,
                 max_voltage_arg |-> max_voltage, timeout_arg |-> timeout,
                 timeout |-> 0, scale |-> 0, freq |-> 0, error |-> "none"]
    IN  /\ IF r.raised
           THEN /\ daq_result' = [kind |-> "ValueError", val |-> 0]
                /\ hw' = [call EXCEPT !.error = "ValueError"]
           ELSE /\ daq_result' = [kind |-> "data", val |-> seconds * r.rate]
                /\ hw' = [call EXCEPT
                            !.freq = r.rate,
                            !.timeout = IF fault = "start" THEN 0
                                        ELSE LegacyTimeout(timeout, seconds),
                            !.scale = LegacyMaxVoltage(max_voltage),
                            !.error = IF fault = "none" THEN "none" ELSE "caught"]
        /\ UNCHANGED <<daq_task, daq_rate, daq_max_voltage, daq_queue, tasks, ntasks,
                       queues, delivered, produced>>

\* FOG_DAQ_Task.run as the every-N-samples callback of asynchronous task t:
\* the chunk goes to the queue the DAQ object holds at that moment.
run(t) ==
    /\ tasks[t].state = "running"
    /\ tasks[t].asynchronous
    /\ daq_queue # 0
    /\ produced < MaxChunks
    /\ produced' = produced + 1
    /\ queues' = [queues EXCEPT ![daq_queue] =
                      Append(@, [task |-> t, seq |-> produced + 1,
                                 len |-> ChunkLen(tasks[t])])]
    /\ hw' = [hw EXCEPT !.timeout = RunTimeout, !.scale = tasks[t].max_voltage]
    /\ UNCHANGED <<daq_task, daq_rate, daq_max_voltage, daq_queue, daq_result,
                   tasks, ntasks, delivered>>

\* next() on generator g: q.get() blocks while the queue is empty.
GenNextLifo(g) ==
    /\ queues[g] # <<>>
    /\ delivered' = [delivered EXCEPT ![g] = Append(@, queues[g][Len(queues[g])])]
    /\ queues' = [queues EXCEPT ![g] = SubSeq(@, 1, Len(@) - 1)]
GenNext(g) ==
    /\ queues[g] # <<>>
    /\ delivered' = [delivered EXCEPT ![g] = Append(@, Head(queues[g]))]
    /\ queues' = [queues EXCEPT ![g] = Tail(@)]

\* NI_9215.stop
stop ==
    IF daq_task = 0
    THEN /\ daq_result' = [kind |-> "AttributeError", val |-> 0]
         /\ UNCHANGED <<daq_task, daq_rate, daq_max_voltage, hw, daq_queue, tasks,
                        ntasks, queues, delivered, produced>>
    ELSE /\ tasks' = [tasks EXCEPT ![daq_task].state = "cleared"]
         /\ daq_task' = 0
         /\ daq_result' = [kind |-> "stopped", val |-> 0]
         /\ UNCHANGED <<daq_rate, daq_max_voltage, hw, daq_queue, ntasks, queues,
                        delivered, produced>>

(***************************************************************************)
(* Rotation stage (rotation_stages.py, NSC_A1) and lock-in amplifier       *)
(* (lock_in_amplifiers.py, SRS_SR844), as far as the gyro drives them.     *)
(***************************************************************************)
\* NSC_A1.cw(val, background=True): a worker thread is started that will send
\* the request; the call returns at once.  ccw(val) is cw(-val).
CwStopsShort(val) == Append(rot_workers, val - 1)
cw_background(val) == Append(rot_workers, val)
ccw_background(val) == cw_background(-val)

RemoveAt(seq, k) == SubSeq(seq, 1, k - 1) \o SubSeq(seq, k + 1, Len(seq))

\* The worker thread of a background rotation sends its request.
RotWorker(k) ==
    /\ UNCHANGED extVars
    /\ k \in 1..Len(rot_workers)
    /\ rot_angle' = rot_angle + rot_workers[k]
    /\ rot_workers' = RemoveAt(rot_workers, k)
    /\ UNCHANGED <<rot_velocity, lia_sensitivity, lia_time_constant>>
    /\ UNCHANGED <<daqVars, mainVars, threadVars>>

(***************************************************************************)
(* Gyro.tombstone (gyros.py), run by the calling thread.                   *)
(***************************************************************************)
NoScaleFactor == -1  \* the Gyro object has no scale_factor attribute

DurationArgs == {<<0, 0, 0>>, <<1, 1, 1>>}
RateArgs == {0, 2}
ScaleFactorArgs == {[auto |-> TRUE, value |-> 0], [auto |-> FALSE, value |-> 0],
                    [auto |-> FALSE, value |-> 7]}
MeasuredScaleFactors == {3, 4}
MaxDurationArgs == 1..MaxDuration

TombstoneArgs ==
    [seconds : {d[1] : d \in DurationArgs}, minutes : {d[2] : d \in DurationArgs},
     hours : {d[3] : d \in DurationArgs}, rate : RateArgs,
     autophase : BOOLEAN, autohome : BOOLEAN, scale_factor : ScaleFactorArgs,
     sensitivity : {0}, max_duration : MaxDurationArgs]

NoTombstone == [mode |-> "none", len |-> 0, rate |-> 0, scale_factor |-> 0]

NoLocals == [duration |-> 0, scale_factor |-> 0, calibrated |-> 0, rate |-> 0,
             max_duration |-> 0, tmp_sensitivity |-> 0, tmp_velocity |-> 0,
             start_angle |-> 0, cal_sensitivity |-> 0, cal_integration_time |-> 0,
             cal_velocity |-> 0, cal_acquisition_rate |-> 0]

\* lines 223-229
Duration(seconds, minutes, hours) ==
    (IF seconds # 0 THEN seconds ELSE 0)
    + (IF minutes # 0 THEN minutes * 60 ELSE 0)
    + (IF hours # 0 THEN hours * 3600 ELSE 0)

\* A call of tombstone.  The calling thread makes one call at a time, and makes
\* none once an open-ended run has started its threads.
TombstoneCall(a) ==
    /\ UNCHANGED extVars
    /\ main_pc \in {"idle", "returned", "raised"}
    /\ runs < MaxRuns
    /\ det_pc = "idle"
    /\ <<a.seconds, a.minutes, a.hours>> \in DurationArgs
    /\ runs' = runs + 1
    /\ args' = a
    /\ locals' = [NoLocals EXCEPT !.duration = Duration(a.seconds, a.minutes, a.hours),
                                  !.scale_factor = a.scale_factor.value]
    /\ trace' = <<>>
    /\ tmb' = NoTombstone
    /\ calibrations' = 0
    /\ acq_reads' = 0
    /\ run_reads' = 0
    /\ run_workers' = 0
    /\ threads_started' = 0
    /\ main_pc' = "home"
    /\ UNCHANGED <<gyro_scale_factor>>
    /\ UNCHANGED <<daqVars, instVars, threadVars>>

\* The step of tombstone that follows homing: autophase when requested
\* (line 234), else the scale factor (line 237).
AfterHomeSkipsCalibration == IF args.autophase THEN "autophase" ELSE "acquire"
AfterHome == IF args.autophase THEN "autophase" ELSE "scale"

\* lines 231-232 with Gyro.home: rot.angle = 0 returns when the move is done.
TmbHome ==
    /\ UNCHANGED extVars
    /\ main_pc = "home"
    /\ IF args.autohome
       THEN /\ rot_angle' = 0
            /\ trace' = Append(trace, "home")
       ELSE UNCHANGED <<rot_angle, trace>>
    /\ main_pc' = AfterHome
    /\ UNCHANGED <<rot_velocity, rot_workers, lia_sensitivity, lia_time_constant>>
    /\ UNCHANGED <<args, locals, runs, tmb, gyro_scale_factor, calibrations,
                   acq_reads, run_reads, run_workers, threads_started>>
    /\ UNCHANGED <<daqVars, threadVars>>

\* Gyro.autophase, lines 116-123: settings saved and set, the background
\* counter-clockwise move started, then sleep(1).
TmbAutophaseBegin ==
    /\ UNCHANGED extVars
    /\ main_pc = "autophase"
    /\ locals' = [locals EXCEPT !.tmp_sensitivity = lia_sensitivity,
                                !.tmp_velocity = rot_velocity,
                                !.start_angle = rot_angle]
    /\ rot_velocity' = 1
    /\ lia_sensitivity' = AutophaseSensitivity
    /\ rot_workers' = ccw_background(AutophaseMove)
    /\ run_workers' = run_workers + 1
    /\ trace' = Append(trace, "autophase_begin")
    /\ main_pc' = "autophase2"
    /\ UNCHANGED <<rot_angle, lia_time_constant>>
    /\ UNCHANGED <<args, runs, tmb, gyro_scale_factor, calibrations, acq_reads,
                   run_reads, threads_started>>
    /\ UNCHANGED <<daqVars, threadVars>>

\* Gyro.autophase, lines 124-129: lia.autophase(), settings restored, sleep(3),
\* and the blocking return to the start angle.
TmbAutophaseEnd ==
    /\ UNCHANGED extVars
    /\ main_pc = "autophase2"
    /\ rot_workers = <<>>
    /\ rot_velocity' = locals.tmp_velocity
    /\ lia_sensitivity' = locals.tmp_sensitivity
    /\ rot_angle' = locals.start_angle
    /\ trace' = Append(trace, "autophase_end")
    /\ main_pc' = "scale"
    /\ UNCHANGED <<rot_workers, lia_time_constant>>
    /\ UNCHANGED <<args, locals, runs, tmb, gyro_scale_factor, calibrations,
                   acq_reads, run_reads, run_workers, threads_started>>
    /\ UNCHANGED <<daqVars, threadVars>>

\* What tombstone keeps on the Gyro object after a calibration: nothing, the
\* scale factor lives in a local variable (lines 240-241).
GyroKeepsCalibration(value) == value
GyroAfterCalibration(value) == gyro_scale_factor

\* lines 237-241, and get_scale_factor lines 152-173 when it is called: the
\* instrument settings are saved and set, the background counter-clockwise
\* move is started, then sleep(1).
TmbScale ==
    /\ UNCHANGED extVars
    /\ main_pc = "scale"
    /\ IF args.scale_factor.auto
       THEN /\ IF gyro_scale_factor = NoScaleFactor
               THEN /\ main_pc' = "raised"    \* AttributeError
                    /\ UNCHANGED locals
               ELSE /\ main_pc' = "acquire"
                    /\ locals' = [locals EXCEPT !.scale_factor = gyro_scale_factor]
            /\ UNCHANGED <<instVars, trace, calibrations, run_workers>>
       ELSE IF locals.scale_factor = 0
       THEN /\ locals' = [locals EXCEPT
                              !.cal_sensitivity = lia_sensitivity,
                              !.cal_integration_time = lia_time_constant,
                              !.cal_velocity = rot_velocity,
                              !.cal_acquisition_rate = 1000 \div lia_time_constant]
            /\ lia_sensitivity' = IF args.sensitivity # 0 THEN args.sensitivity
                                  ELSE DefaultCalSensitivity
            /\ lia_time_constant' = CalTimeConstant
            /\ rot_velocity' = 1
            /\ rot_workers' = ccw_background(CalMove)
            /\ run_workers' = run_workers + 1
            /\ calibrations' = calibrations + 1
            /\ trace' = Append(trace, "cal_begin")
            /\ main_pc' = "cal_read1"
            /\ UNCHANGED rot_angle
       ELSE /\ main_pc' = "acquire"
            /\ UNCHANGED <<instVars, locals, trace, calibrations, run_workers>>
    /\ UNCHANGED <<args, runs, tmb, gyro_scale_factor, acq_reads, run_reads,
                   threads_started>>
    /\ UNCHANGED <<daqVars, threadVars>>

\* get_scale_factor lines 174-176: the first blocking read, then sleep(5).
TmbCalRead ==
    /\ UNCHANGED extVars
    /\ main_pc = "cal_read1"
    /\ read(CalSeconds, locals.cal_acquisition_rate, DefaultOversampling, FALSE)
    /\ run_reads' = run_reads + 1
    /\ main_pc' = IF daq_result'.kind = "data" THEN "cal_cw" ELSE "raised"
    /\ UNCHANGED <<args, locals, runs, trace, tmb, gyro_scale_factor, calibrations,
                   acq_reads, run_workers, threads_started>>
    /\ UNCHANGED <<instVars, threadVars>>

\* get_scale_factor lines 178-179: the background clockwise move, then sleep(1).
TmbCalCw ==
    /\ UNCHANGED extVars
    /\ main_pc = "cal_cw"
    /\ rot_workers = <<>>
    /\ rot_workers' = cw_background(CalMove)
    /\ run_workers' = run_workers + 1
    /\ main_pc' = "cal_read2"
    /\ UNCHANGED <<rot_angle, rot_velocity, lia_sensitivity, lia_time_constant>>
    /\ UNCHANGED <<args, locals, runs, trace, tmb, gyro_scale_factor, calibrations,
                   acq_reads, run_reads, threads_started>>
    /\ UNCHANGED <<daqVars, threadVars>>

\* get_scale_factor lines 180-194: the second blocking read, sleep(5), the
\* settings restored, and the scale factor computed from the two reads.
TmbCalEnd ==
    /\ UNCHANGED extVars
    /\ main_pc = "cal_read2"
    /\ rot_workers = <<>>
    /\ read(CalSeconds, locals.cal_acquisition_rate, DefaultOversampling, FALSE)
    /\ run_reads' = run_reads + 1
    /\ IF daq_result'.kind = "data"
       THEN /\ \E measured \in MeasuredScaleFactors :
                 /\ locals' = [locals EXCEPT !.scale_factor = measured,
                                             !.calibrated = measured]
                 /\ gyro_scale_factor' = GyroAfterCalibration(measured)
            /\ lia_time_constant' = locals.cal_integration_time
            /\ lia_sensitivity' = locals.cal_sensitivity
            /\ rot_velocity' = locals.cal_velocity
            /\ trace' = Append(trace, "cal_end")
            /\ main_pc' = "acquire"
       ELSE /\ main_pc' = "raised"
            /\ UNCHANGED <<locals, gyro_scale_factor, lia_time_constant,
                           lia_sensitivity, rot_velocity, trace>>
    /\ UNCHANGED <<rot_angle, rot_workers>>
    /\ UNCHANGED <<args, runs, tmb, calibrations, acq_reads, run_workers,
                   threads_started>>
    /\ UNCHANGED threadVars

\* lines 245-250: the synchronous acquisition.
TmbAcquireSync ==
    /\ UNCHANGED extVars
    /\ main_pc = "acquire"
    /\ locals.duration # 0
    /\ read(locals.duration, args.rate, DefaultOversampling, FALSE)
    /\ run_reads' = run_reads + 1
    /\ acq_reads' = acq_reads + 1
    /\ trace' = Append(trace, "acquire")
    /\ IF daq_result'.kind = "data"
       THEN /\ tmb' = [mode |-> "sync", len |-> daq_result'.val,
                       rate |-> IF args.rate # 0 THEN args.rate
                                ELSE daq_result'.val \div locals.duration,
                       scale_factor |-> locals.scale_factor]
            /\ main_pc' = "returned"
       ELSE /\ tmb' = tmb
            /\ main_pc' = "raised"
    /\ UNCHANGED <<args, locals, runs, gyro_scale_factor, calibrations,
                   run_workers, threads_started>>
    /\ UNCHANGED <<instVars, threadVars>>

\* The threads tombstone starts for an open-ended run (lines 263-266).
StartNoThreads == [collector |-> FALSE, checker |-> FALSE]
StartOnlyCollector == [collector |-> TRUE, checker |-> FALSE]
ThreadsToStart == [collector |-> TRUE, checker |-> TRUE]

\* lines 252-267: the open-ended acquisition.
TmbAcquireAsync ==
    /\ UNCHANGED extVars
    /\ main_pc = "acquire"
    /\ locals.duration = 0
    /\ LET max_duration == IF args.max_duration = 0 THEN DefaultMaxDuration
                           ELSE args.max_duration
           rate == IF args.rate = 0 THEN DefaultAsyncRate ELSE args.rate
       IN  /\ locals' = [locals EXCEPT !.rate = rate, !.max_duration = max_duration]
           /\ buf' = [k \in 1..(max_duration * rate) |-> 0]
           /\ write_count' = [k \in 1..(max_duration * rate) |-> 0]
           /\ tmb' = [mode |-> "async", len |-> max_duration * rate, rate |-> rate,
                      scale_factor |-> locals.scale_factor]
    /\ stop_data' = FALSE
    /\ stop_adev' = FALSE
    /\ det_pc' = IF ThreadsToStart.collector THEN "start" ELSE det_pc
    /\ chk_pc' = IF ThreadsToStart.checker THEN "sleep" ELSE chk_pc
    /\ threads_started' = (IF ThreadsToStart.collector THEN 1 ELSE 0)
                          + (IF ThreadsToStart.checker THEN 1 ELSE 0)
    /\ trace' = Append(trace, "acquire")
    /\ main_pc' = "returned"
    /\ UNCHANGED <<args, runs, gyro_scale_factor, calibrations, acq_reads,
                   run_reads, run_workers>>
    /\ UNCHANGED <<det_gen, det_i, det_chunk, poll, iste_run, buf_writers,
                   notifications>>
    /\ UNCHANGED <<daqVars, instVars>>

(***************************************************************************)
(* The tombstone run's threads.                                            *)
(***************************************************************************)
\* Tombstone.stop() of the pyfog package: the stop events of both threads of
\* the run are set, the stop flag the two threads share.
TmbStopCollectorOnly ==
    /\ stop_data' = TRUE
    /\ stop_adev' = stop_adev
TmbStop ==
    /\ stop_data' = TRUE
    /\ stop_adev' = TRUE

\* Gyro.notify
notify(msg) == notifications' = Append(notifications, msg)

NoChunk == [task |-> 0, seq |-> 0, len |-> 0]

\* The while condition of Gyro.detector, line 304.
DetLoopPc(i) == IF i < locals.rate * locals.max_duration THEN "next" ELSE "finish"

\* Gyro.detector lines 302-304: the asynchronous read is started, i = 0.
DetStart ==
    /\ UNCHANGED extVars
    /\ det_pc = "start"
    /\ ~TaskRunning
    /\ read(1, locals.rate, DefaultOversampling, TRUE)
    /\ IF daq_result'.kind = "generator"
       THEN /\ det_gen' = daq_result'.val
            /\ det_pc' = DetLoopPc(0)
       ELSE /\ det_gen' = det_gen
            /\ det_pc' = "done"
    /\ det_i' = 0
    /\ UNCHANGED <<det_chunk, chk_pc, poll, iste_run, stop_data, stop_adev, buf,
                   write_count, buf_writers, notifications>>
    /\ UNCHANGED <<instVars, mainVars>>

\* Gyro.detector lines 305-307: the blocking next(data), and the break when
\* the chunk would run past the end of the tombstone.
DetNext ==
    /\ UNCHANGED extVars
    /\ det_pc = "next"
    /\ GenNext(det_gen)
    /\ LET data_to_add == delivered'[det_gen][Len(delivered'[det_gen])]
       IN  /\ det_chunk' = data_to_add
           /\ det_pc' = IF det_i + data_to_add.len > Len(buf) THEN "finish" ELSE "write"
    /\ UNCHANGED <<daq_task, daq_rate, daq_max_voltage, hw, daq_queue, daq_result,
                   tasks, ntasks, produced>>
    /\ UNCHANGED <<det_gen, det_i, chk_pc, poll, iste_run, stop_data, stop_adev, buf,
                   write_count, buf_writers, notifications>>
    /\ UNCHANGED <<instVars, mainVars>>

\* tmb.iloc[i:next_i] (line 308): the cells after the first i, up to next_i
SliceFromBefore(i, next_i) == {k \in 1..next_i : i <= k}
Slice(i, next_i) == {k \in 1..next_i : i < k}

\* Gyro.detector lines 308-309: the chunk is written at i..next_i.
DetWrite ==
    /\ UNCHANGED extVars
    /\ det_pc = "write"
    /\ LET next_i == det_i + det_chunk.len
       IN  /\ buf' = [k \in 1..Len(buf) |->
                         IF k \in Slice(det_i, next_i) THEN det_chunk.seq ELSE buf[k]]
           /\ write_count' = [k \in 1..Len(buf) |->
                         IF k \in Slice(det_i, next_i) THEN write_count[k] + 1
                         ELSE write_count[k]]
           /\ det_i' = next_i
    /\ buf_writers' = buf_writers \cup {"collector"}
    /\ det_pc' = "check"
    /\ UNCHANGED <<det_gen, det_chunk, chk_pc, poll, iste_run, stop_data, stop_adev,
                   notifications>>
    /\ UNCHANGED <<daqVars, instVars, mainVars>>

\* Gyro.detector lines 310-311 and the loop condition again, line 304.
DetCheckIgnoresStop == DetLoopPc(det_i)
DetCheckPc == IF stop_data THEN "done" ELSE DetLoopPc(det_i)

DetCheck ==
    /\ UNCHANGED extVars
    /\ det_pc = "check"
    /\ det_pc' = DetCheckPc
    /\ UNCHANGED <<det_gen, det_i, det_chunk, chk_pc, poll, iste_run, stop_data,
                   stop_adev, buf, write_count, buf_writers, notifications>>
    /\ UNCHANGED <<daqVars, instVars, mainVars>>

\* Gyro.detector lines 312-313.
DetFinish ==
    /\ UNCHANGED extVars
    /\ det_pc = "finish"
    /\ notify("Reached max duration")
    /\ TmbStop
    /\ det_pc' = "done"
    /\ UNCHANGED <<det_gen, det_i, det_chunk, chk_pc, poll, iste_run, buf,
                   write_count, buf_writers>>
    /\ UNCHANGED <<daqVars, instVars, mainVars>>

\* What a poll of the checker can meet: an Allan deviation curve with its
\* maximum at long averaging times and its drift floor, or one of the two
\* errors of the pyfog package.
DevPairs == {<<3, 1>>, <<7, 2>>}
PollOutcomes ==
    {[kind |-> "ratio", maxdev |-> p[1], drift |-> p[2]] : p \in DevPairs}
    \cup {[kind |-> "InsufficientSampleTimeError", maxdev |-> 0, drift |-> 0],
          [kind |-> "InsufficientSamplingRateError", maxdev |-> 0, drift |-> 0]}
NoPoll == [kind |-> "none", maxdev |-> 0, drift |-> 0]

\* line 323-324: 10*log10(maxdev / drift) > threshold, that is
\* (maxdev / drift)^10 > 10^threshold, for positive deviations.
RatioBelow(maxdev, drift, threshold) ==
    Pow(maxdev, 10) < Pow(10, threshold) * Pow(drift, 10)
RatioExceeds(maxdev, drift, threshold) ==
    Pow(maxdev, 10) > Pow(10, threshold) * Pow(drift, 10)

\* Gyro.adev_checker lines 319-321: sleep(period), then the stop check.
ChkWakeIgnoresStop == "compute"
ChkWakePc == IF stop_adev THEN "done" ELSE "compute"

ChkWake ==
    /\ UNCHANGED extVars
    /\ chk_pc = "sleep"
    /\ chk_pc' = ChkWakePc
    /\ UNCHANGED <<det_pc, det_gen, det_i, det_chunk, poll, iste_run, stop_data,
                   stop_adev, buf, write_count, buf_writers, notifications>>
    /\ UNCHANGED <<daqVars, instVars, mainVars>>

\* Gyro.adev_checker lines 322-332: what the poll does with its outcome,
\* [pc, msg]: where the thread goes and what it notifies ("" for nothing).
PollRaisesOnSampleTime(outcome) ==
    IF outcome.kind = "ratio"
    THEN IF RatioExceeds(outcome.maxdev, outcome.drift, Threshold)
         THEN [pc |-> "stop", msg |-> "Reached ADev Min"]
         ELSE [pc |-> "sleep", msg |-> ""]
    ELSE [pc |-> "stop", msg |-> "Sampling rate too small. Cannot resolve drift"]
PollContinuesOnSamplingRate(outcome) ==
    IF outcome.kind = "ratio"
    THEN IF RatioExceeds(outcome.maxdev, outcome.drift, Threshold)
         THEN [pc |-> "stop", msg |-> "Reached ADev Min"]
         ELSE [pc |-> "sleep", msg |-> ""]
    ELSE [pc |-> "sleep", msg |-> ""]
PollStep(outcome) ==
    IF outcome.kind = "ratio"
    THEN IF RatioExceeds(outcome.maxdev, outcome.drift, Threshold)
         THEN [pc |-> "stop", msg |-> "Reached ADev Min"]
         ELSE [pc |-> "sleep", msg |-> ""]
    ELSE IF outcome.kind = "InsufficientSampleTimeError"
    THEN [pc |-> "sleep", msg |-> ""]
    ELSE [pc |-> "stop", msg |-> "Sampling rate too small. Cannot resolve drift"]

\* line 323: the checker reads tmb.devs and tmb.drift and leaves the samples
\* as they are.
CheckerCleansBuffer ==
    /\ buf' = [k \in 1..Len(buf) |-> IF buf[k] = 0 THEN -1 ELSE buf[k]]
    /\ write_count' = [k \in 1..Len(buf) |->
                          IF buf[k] = 0 THEN write_count[k] + 1 ELSE write_count[k]]
    /\ buf_writers' = buf_writers \cup {"checker"}
CheckerBufferAccess == UNCHANGED <<buf, write_count, buf_writers>>

ChkCompute ==
    /\ UNCHANGED extVars
    /\ chk_pc = "compute"
    /\ CheckerBufferAccess
    /\ \E outcome \in PollOutcomes :
         /\ poll' = outcome
         /\ chk_pc' = PollStep(outcome).pc
         /\ IF PollStep(outcome).msg # ""
            THEN notify(PollStep(outcome).msg)
            ELSE UNCHANGED notifications
         /\ iste_run' = IF outcome.kind = "InsufficientSampleTimeError"
                        THEN Min(iste_run + 1, MaxPolls) ELSE 0
    /\ UNCHANGED <<det_pc, det_gen, det_i, det_chunk, stop_data, stop_adev>>
    /\ UNCHANGED <<daqVars, instVars, mainVars>>

\* Gyro.adev_checker line 333.
ChkStop ==
    /\ UNCHANGED extVars
    /\ chk_pc = "stop"
    /\ TmbStop
    /\ chk_pc' = "done"
    /\ UNCHANGED <<det_pc, det_gen, det_i, det_chunk, poll, iste_run, buf,
                   write_count, buf_writers, notifications>>
    /\ UNCHANGED <<daqVars, instVars, mainVars>>

\* The every-N-samples callback of the collector's asynchronous task.
DaqCallback ==
    /\ UNCHANGED extVars
    /\ \E t \in 1..MaxTasks : run(t)
    /\ UNCHANGED <<instVars, mainVars, threadVars>>

(***************************************************************************)
(* The instrument drivers used directly.  A driver call either raises or   *)
(* writes one command to its instrument; what it did is kept in            *)
(* drv_result, what it wrote is appended to bus.                           *)
(***************************************************************************)
NoCall == [inst |-> "none", call |-> "none", arg |-> 0, kind |-> "none", val |-> 0,
           units |-> "none"]

Command(inst, cmd, arg) == [inst |-> inst, cmd |-> cmd, arg |-> arg]

\* What a setter does: raise, or write one command.
\* A setter that writes also calls self.logger.info after the write, unless
\* it is a WriteQuiet one, which has no logger call.
Raise(kind) == [raised |-> TRUE, kind |-> kind, cmd |-> "", arg |-> 0, logged |-> FALSE]
Write(cmd, arg) == [raised |-> FALSE, kind |-> "ok", cmd |-> cmd, arg |-> arg, logged |-> TRUE]
WriteQuiet(cmd, arg) == [Write(cmd, arg) EXCEPT !.logged = FALSE]

\* logger.info("<setting> set to <val>"): one record appended to the log file.
Record(inst, setting, val) == [inst |-> inst, setting |-> setting, val |-> val]
Logged(r, inst, setting, val) ==
    IF r.logged THEN Append(log, Record(inst, setting, val)) ELSE log

\* list.index(val): the position of the first element equal to val, counted
\* from 0; -1 stands for the ValueError that list.index raises.
IndexOf(list, val) ==
    IF \E k \in 1..Len(list) : list[k] = val
    THEN (CHOOSE k \in 1..Len(list) :
              list[k] = val /\ \A j \in 1..(k - 1) : list[j] # val) - 1
    ELSE -1

(***************************************************************************)
(* SRS_SR844 (lock_in_amplifiers.py).  The setters receive the magnitude   *)
(* of their argument in degrees, volts and seconds; here sensitivities are *)
(* written in nanovolts and time constants in units of 100 microseconds.   *)
(***************************************************************************)
\* _sensitivity_dict, the Vrms column by key 0..14 (lines 112-128)
SensitivityVrms == <<100, 300, 1000, 3000, 10000, 30000, 100000, 300000,
                     1000000, 3000000, 10000000, 30000000, 100000000,
                     300000000, 1000000000>>

\* _time_constant_list (lines 131-150)
TimeConstantList == <<1, 3, 10, 30, 100, 300, 1000, 3000, 10000, 30000, 100000,
                      300000, 1000000, 3000000, 10000000, 30000000, 100000000,
                      300000000>>

\* phase setter, lines 190-194
phase_setter(val) ==
    IF val > 180 \/ val < -180 THEN Raise("ValueError") ELSE Write("PHAS", val)

\* sensitivity setter, lines 203-211: list.index raises ValueError itself for
\* a value that is not in the table, so the test of line 208 never fails.
sensitivity_setter(val) ==
    LET key == IndexOf(SensitivityVrms, val)
    IN  IF key = -1 THEN Raise("ValueError")
        ELSE IF key \notin 0..(Len(SensitivityVrms) - 1) THEN Raise("ValueError")
        ELSE Write("SENS", key)

\* time_constant setter, lines 221-226
TimeConstantUnchecked(val) == Write("OFLT", IndexOf(TimeConstantList, val))
time_constant_setter(val) ==
    IF \A k \in 1..Len(TimeConstantList) : TimeConstantList[k] # val
    THEN Raise("ValueError")
    ELSE Write("OFLT", IndexOf(TimeConstantList, val))

\* A driver call on instrument inst with outcome r (a Raise or a Write).
DriverCall(inst, call, arg, r) ==
    /\ Len(bus) < MaxCommands
    /\ drv_result' = [inst |-> inst, call |-> call, arg |-> arg, kind |-> r.kind,
                      val |-> 0, units |-> "none"]
    /\ bus' = IF r.raised THEN bus ELSE Append(bus, Command(inst, r.cmd, r.arg))
    /\ log' = Logged(r, inst, call, arg)
    /\ UNCHANGED <<fg, fg_result, awg2, status_out>>

PhaseArgs == {-181, -180, 0, 90, 180, 181}
SensitivityArgs == {0, 100, 200, 30000000, 1000000000, 2000000000}
TimeConstantArgs == {0, 1, 2, 100, 300000000, 1000000000}

LiaSetPhase(val) ==
    /\ DriverCall("lia", "phase", val, phase_setter(val))
    /\ UNCHANGED <<daqVars, instVars, mainVars, threadVars, impVars>>

LiaSetSensitivity(val) ==
    /\ DriverCall("lia", "sensitivity", val, sensitivity_setter(val))
    /\ UNCHANGED <<daqVars, instVars, mainVars, threadVars, impVars>>

LiaSetTimeConstant(val) ==
    /\ DriverCall("lia", "time_constant", val, time_constant_setter(val))
    /\ UNCHANGED <<daqVars, instVars, mainVars, threadVars, impVars>>

(***************************************************************************)
(* SRS_SR844 x_offset and y_offset setters (lock_in_amplifiers.py lines    *)
(* 240-254).  Offsets are in hundredths of a percent.                      *)
(***************************************************************************)
Percent(p) == 100 * p

\* '%.2f' % val: two decimals, which is val itself in hundredths
Format2f(val) == val

\* '%2.f' % val: no decimals, rounded to the nearest whole percent, a half to
\* the even one
Format0f(val) ==
    LET q == val \div 100
        r == val % 100
    IN  IF r > 50 \/ (r = 50 /\ q % 2 = 1) THEN Percent(q + 1) ELSE Percent(q)

\* x_offset setter (lines 241-244)
x_offset_setter(val) ==
    IF val > Percent(110) \/ val < Percent(-110) THEN Raise("ValueError")
    ELSE WriteQuiet("DOFF 1,0,", Format2f(val))

\* y_offset setter (lines 251-254)
y_offset_setter(val) ==
    IF val > Percent(100) \/ val < Percent(-110) THEN Raise("ValueError")
    ELSE WriteQuiet("DOFF 2,0,", Format0f(val))

OffsetArgs == {-11001, -11000, 0, 5050, 10000, 10500, 11000, 11001}

LiaSetXOffset(val) ==
    /\ DriverCall("lia", "x_offset", val, x_offset_setter(val))
    /\ UNCHANGED <<daqVars, instVars, mainVars, threadVars, impVars>>

LiaSetYOffset(val) ==
    /\ DriverCall("lia", "y_offset", val, y_offset_setter(val))
    /\ UNCHANGED <<daqVars, instVars, mainVars, threadVars, impVars>>

(***************************************************************************)
(* SRS_SR844.get_status (lock_in_amplifiers.py lines 279-306).             *)
(***************************************************************************)
StatusBits == 16

\* _status_dictionary (lines 153-174): the name of each entry
StatusNames == <<"ULK", "FRQ", "-", "TRG", "INP", "RSV", "FLT", "CHG",
                 "CH1", "CH2", "OAX", "UAX", "-", "-", "-", "-">>

RECURSIVE Pow2(_)
Pow2(k) == IF k = 0 THEN 1 ELSE 2 * Pow2(k - 1)

\* format(status, '016b'): the binary digits, the most significant first,
\* padded with zeros on the left to 16 characters
RECURSIVE Binary(_)
Binary(n) ==
    LET d == IF n % 2 = 1 THEN "1" ELSE "0"
    IN  IF n < 2 THEN <<d>> ELSE Binary(n \div 2) \o <<d>>
Format016b(status) ==
    LET b == Binary(status)
    IN  [k \in 1..(StatusBits - Len(b)) |-> "0"] \o b

NoStatus == [called |-> FALSE, status |-> 0, status_bits |-> <<>>, printed |-> <<>>]

\* get_status: the string returned, and the dictionary keys whose entry is
\* printed, in the order of the loop (lines 301-304)
RECURSIVE Explain(_, _)
Explain(status_bits, idx) ==
    IF idx = Len(status_bits) THEN <<>>
    ELSE (IF status_bits[idx + 1] = "0" THEN <<>> ELSE <<idx>>)
         \o Explain(status_bits, idx + 1)

get_status(status, given, verbose) ==
    LET status_bits == Format016b(status)
    IN  [called |-> TRUE, status |-> status, status_bits |-> status_bits,
         printed |-> IF given \/ verbose THEN Explain(status_bits, 0) ELSE <<>>]

\* 16-bit status words with at most two bits set, and the word with all set
StatusWords ==
    {0, Pow2(StatusBits) - 1}
        \cup {Pow2(i) : i \in 0..(StatusBits - 1)}
        \cup {Pow2(p[1]) + Pow2(p[2]) :
                 p \in {q \in (0..(StatusBits - 1)) \X (0..(StatusBits - 1)) : q[1] < q[2]}}

\* lia.get_status(), lia.get_status(verbose=True) with the instrument
\* answering LIAS? with status, or lia.get_status(status)
LiaGetStatus(status, given, verbose) ==
    /\ status_out' = get_status(status, given, verbose)
    /\ drv_result' = [NoCall EXCEPT !.inst = "lia", !.call = "get_status", !.arg = status,
                                   !.kind = "ok"]
    /\ UNCHANGED <<bus, fg, fg_result, awg2, log>>
    /\ UNCHANGED <<daqVars, instVars, mainVars, threadVars, impVars>>

(***************************************************************************)
(* Agilent_33250A and HP_33120A (function_generators.py).  Strings are     *)
(* sequences of characters.  The instrument keeps the selected function    *)
(* and the selected user waveform, takes names in either case, and answers *)
(* a query with the name followed by a newline.                            *)
(***************************************************************************)
SIN == <<"S", "I", "N">>
SQU == <<"S", "Q", "U">>
RAMP == <<"R", "A", "M", "P">>
PULS == <<"P", "U", "L", "S">>
NOIS == <<"N", "O", "I", "S">>
DC == <<"D", "C">>
USER == <<"U", "S", "E", "R">>
TRI == <<"T", "R", "I">>
VOLATILE == <<"V", "O", "L", "A", "T", "I", "L", "E">>
PULSEWAVEFORM == <<"P", "U", "L", "S", "E", "W", "A", "V", "E", "F", "O", "R", "M">>
Space == <<" ">>
Newline == <<"\n">>

\* waveform_list (lines 233-235, 605-607)
waveform_list == <<SIN, SQU, RAMP, PULS, NOIS, DC, USER>>

\* str.upper() on the letters the modelled names are written with
UpperChar(c) == CASE c = "s" -> "S" [] c = "i" -> "I" [] c = "n" -> "N" [] OTHER -> c
Upper(str) == [k \in 1..Len(str) |-> UpperChar(str[k])]

\* str[0:n] and str[:-1]
Prefix(str, n) == SubSeq(str, 1, Min(n, Len(str)))
DropLast(str) == SubSeq(str, 1, Len(str) - 1)

\* The generator before it is opened: the instrument powers on with a sine.
NoGenerator == [model |-> "none", func |-> SIN, user |-> VOLATILE]

\* A frequency of hz + uhz/10^6 hertz, 0 <= uhz < 10^6.
Hertz(hz, uhz) == [hz |-> hz, uhz |-> uhz]
Below(f, g) == f.hz < g.hz \/ (f.hz = g.hz /\ f.uhz < g.uhz)
Above(f, g) == Below(g, f)

\* No call on the generator yet.
NoFgCall == [call |-> "none", kind |-> "none", waveform |-> <<>>,
             frequency |-> Hertz(0, 0), val |-> <<>>, dtype |-> "none", points |-> <<>>]

\* The instrument's answers to FUNC? and FUNC:USER?
QueryFunc == fg.func \o Newline
QueryFuncUser == fg.user \o Newline

\* The instrument takes a written command: FUNC <name> selects the function,
\* FUNC:USER <name> selects the user waveform.
Instrument(r) ==
    IF r.raised THEN fg
    ELSE IF r.cmd = "FUNC " THEN [fg EXCEPT !.func = Upper(r.arg)]
    ELSE IF r.cmd = "FUNC:" /\ Len(r.arg) > 5
    THEN [fg EXCEPT !.user = Upper(SubSeq(r.arg, 6, Len(r.arg)))]
    ELSE fg

\* waveform getter (lines 225-229, 597-601)
WaveformPlain == DropLast(QueryFunc)
waveform ==
    LET wf == DropLast(QueryFunc)
    IN  IF wf = USER THEN USER \o Space \o DropLast(QueryFuncUser) ELSE wf

\* waveform setter (lines 232-245, 604-619)
waveform_setter(val) ==
    IF \E k \in 1..Len(waveform_list) : waveform_list[k] = Upper(val)
    THEN Write("FUNC ", val)
    ELSE IF Prefix(Upper(val), 4) = USER THEN Write("FUNC:", val)
    ELSE Raise("Exception")

\* '%i' % val: the decimal digits of the whole hertz of val, the fraction
\* cut off
RECURSIVE Digits(_)
Digits(n) ==
    LET d == <<"0", "1", "2", "3", "4", "5", "6", "7", "8", "9">>[(n % 10) + 1]
    IN  IF n < 10 THEN <<d>> ELSE Digits(n \div 10) \o <<d>>
FormatInt(f) == Digits(f.hz)

\* Agilent_33250A.frequency setter (lines 181-191)
Agilent_frequency_setter(val) ==
    IF Below(val, Hertz(0, 1)) THEN Raise("ValueError")
    ELSE IF (waveform = SIN \/ waveform = SQU) /\ Above(val, Hertz(80000000, 0))
    THEN Raise("ValueError")
    ELSE IF waveform = PULS /\ (Below(val, Hertz(0, 500)) \/ Above(val, Hertz(50000000, 0)))
    THEN Raise("ValueError")
    ELSE Write("FREQ ", FormatInt(val))

\* HP_33120A.frequency setter (lines 543-554)
HP_frequency_setter(val) ==
    IF Below(val, Hertz(0, 100)) THEN Raise("ValueError")
    ELSE IF (waveform = SIN \/ waveform = SQU) /\ Above(val, Hertz(15000000, 0))
    THEN Raise("ValueError")
    ELSE IF waveform = RAMP /\ Above(val, Hertz(100000, 0)) THEN Raise("ValueError")
    ELSE Write("FREQ ", FormatInt(val))

\* float(f): the number a string of decimal digits stands for
RECURSIVE ParseInt(_)
ParseInt(str) ==
    LET d == CHOOSE k \in 0..9 : Digits(k) = <<str[Len(str)]>>
    IN  IF Len(str) = 1 THEN d ELSE 10 * ParseInt(DropLast(str)) + d

\* The instrument's answer to FREQ?: the frequency it was last sent.
FreqCommands == {k \in 1..Len(bus) : bus[k].cmd = "FREQ "}
QueryFreq == bus[CHOOSE k \in FreqCommands : \A j \in FreqCommands : j <= k].arg

\* frequency getter (lines 174-177, 536-539)
frequency == Hertz(ParseInt(QueryFreq), 0)

GeneratorModels == {"Agilent_33250A", "HP_33120A"}
WaveformArgs == {SIN, SQU, RAMP, PULS, NOIS, DC, USER, USER \o Space \o PULSEWAVEFORM,
                 TRI, <<"s", "i", "n">>}
FrequencyArgs == {Hertz(-1, 0), Hertz(0, 0), Hertz(0, 1), Hertz(0, 99), Hertz(0, 100),
                  Hertz(0, 499), Hertz(0, 500), Hertz(1, 500000), Hertz(100000, 0),
                  Hertz(100000, 1), Hertz(15000000, 0), Hertz(15000000, 1),
                  Hertz(50000000, 0), Hertz(50000000, 1), Hertz(80000000, 0),
                  Hertz(80000000, 1)}

\* awg = Agilent_33250A(...) or awg = HP_33120A(...)
FgOpen(model) ==
    /\ fg.model = "none"
    /\ fg' = [fg EXCEPT !.model = model]
    /\ UNCHANGED <<bus, drv_result, fg_result, awg2, status_out, log>>
    /\ UNCHANGED <<daqVars, instVars, mainVars, threadVars, impVars>>

\* A setter call on the generator with outcome r.
FgCall(call, r) ==
    /\ fg.model # "none"
    /\ Len(bus) < MaxFgCommands
    /\ fg_result' = [call EXCEPT !.kind = r.kind]
    /\ log' = Logged(r, fg.model, call.call,
                     IF call.call = "frequency" THEN call.frequency ELSE call.waveform)
    /\ UNCHANGED <<drv_result, awg2, status_out>>
    /\ bus' = IF r.raised THEN bus ELSE Append(bus, Command(fg.model, r.cmd, r.arg))
    /\ fg' = Instrument(r)
    /\ UNCHANGED <<daqVars, instVars, mainVars, threadVars, impVars>>

FgSetWaveform(val) ==
    FgCall([NoFgCall EXCEPT !.call = "waveform", !.waveform = val], waveform_setter(val))

FgGetWaveform ==
    /\ fg.model # "none"
    /\ fg_result' = [NoFgCall EXCEPT !.call = "waveform?", !.kind = "ok", !.val = waveform]
    /\ UNCHANGED <<bus, fg, drv_result, awg2, status_out, log>>
    /\ UNCHANGED <<daqVars, instVars, mainVars, threadVars, impVars>>

\* awg.frequency, read after the frequency has been set
FgGetFrequency ==
    /\ fg.model # "none"
    /\ FreqCommands # {}
    /\ fg_result' = [NoFgCall EXCEPT !.call = "frequency?", !.kind = "ok",
                                     !.frequency = frequency]
    /\ UNCHANGED <<bus, fg, drv_result, awg2, status_out, log>>
    /\ UNCHANGED <<daqVars, instVars, mainVars, threadVars, impVars>>

FgSetFrequency(val) ==
    FgCall([NoFgCall EXCEPT !.call = "frequency", !.frequency = val],
           IF fg.model = "HP_33120A" THEN HP_frequency_setter(val)
           ELSE Agilent_frequency_setter(val))

(***************************************************************************)
(* upload, save_as, upload_as of Agilent_33250A (lines 268-283, 393-417)   *)
(* and HP_33120A (lines 621-661).  A point is a number or the float nan,   *)
(* which compares False with everything.                                   *)
(***************************************************************************)
Num(v) == [nan |-> FALSE, v |-> v]
NaN == [nan |-> TRUE, v |-> 0]
Gt(x, y) == ~x.nan /\ ~y.nan /\ x.v > y.v
Lt(x, y) == Gt(y, x)

\* max(points_array) and min(points_array): the built-in keeps the first
\* element until a later one compares greater (less).
RECURSIVE PyMax(_)
PyMax(a) ==
    IF Len(a) = 1 THEN a[1]
    ELSE LET m == PyMax(DropLast(a)) IN IF Gt(a[Len(a)], m) THEN a[Len(a)] ELSE m
RECURSIVE PyMin(_)
PyMin(a) ==
    IF Len(a) = 1 THEN a[1]
    ELSE LET m == PyMin(DropLast(a)) IN IF Lt(a[Len(a)], m) THEN a[Len(a)] ELSE m

\* upload (lines 274-283, 627-636); max() of an empty array raises ValueError
upload(dtype, points_array) ==
    IF dtype \notin {"float64", "int32"} THEN Raise("Exception")
    ELSE IF Len(points_array) = 0 THEN Raise("ValueError")
    ELSE IF Gt(PyMax(points_array), Num(1)) \/ Lt(PyMin(points_array), Num(-1))
    THEN Raise("Exception")
    ELSE Write("DATA VOLATILE, ", points_array)

\* save_as (lines 400-401, 645-646)
save_as(waveform_name) == Write("DATA:COPY ", waveform_name)

MaxPoints == 2
PointValues == {Num(-2), Num(-1), Num(1), Num(2), NaN}
PointArrays == UNION {[1..n -> PointValues] : n \in 0..MaxPoints}
Dtypes == {"float64", "int32", "int64"}
\* np.array(points_array): nan only exists in a float array
Arrays == {x \in Dtypes \X PointArrays :
             (\E k \in 1..Len(x[2]) : x[2][k].nan) => x[1] = "float64"}

\* awg.upload(points_array)
FgUpload(dtype, points_array) ==
    LET r == upload(dtype, points_array)
    IN  /\ fg.model # "none"
        /\ Len(bus) < MaxFgCommands
        /\ fg_result' = [NoFgCall EXCEPT !.call = "upload", !.kind = r.kind,
                                         !.dtype = dtype, !.points = points_array]
        /\ bus' = IF r.raised THEN bus ELSE Append(bus, Command(fg.model, r.cmd, r.arg))
        /\ log' = Logged(r, fg.model, "upload", Len(points_array))
        /\ UNCHANGED <<fg, drv_result, awg2, status_out>>
        /\ UNCHANGED <<daqVars, instVars, mainVars, threadVars, impVars>>

\* awg.upload_as(points_array, waveform_name): upload, then save_as; the HP
\* wrapper writes one more log record after the two.
FgUploadAs(dtype, points_array, waveform_name) ==
    LET r == upload(dtype, points_array)
        s == save_as(waveform_name)
        uploaded == Append(bus, Command(fg.model, r.cmd, r.arg))
        log1 == Append(log, Record(fg.model, "upload", Len(points_array)))
        log2 == Append(log1, Record(fg.model, "save_as", waveform_name))
    IN  /\ fg.model # "none"
        /\ Len(bus) + 1 < MaxFgCommands
        /\ fg_result' = [NoFgCall EXCEPT !.call = "upload_as", !.kind = r.kind,
                                         !.dtype = dtype, !.points = points_array,
                                         !.waveform = waveform_name]
        /\ bus' = IF r.raised THEN bus
                  ELSE Append(uploaded, Command(fg.model, s.cmd, s.arg))
        /\ log' = IF r.raised THEN log
                  ELSE IF fg.model = "HP_33120A"
                  THEN Append(log2, Record(fg.model, "upload_as", waveform_name))
                  ELSE log2
        /\ UNCHANGED <<fg, drv_result, awg2, status_out>>
        /\ UNCHANGED <<daqVars, instVars, mainVars, threadVars, impVars>>

(***************************************************************************)
(* SRS_DS345 (function_generators.py lines 420-509).  Neither the class    *)
(* nor FunctionGenerator defines waveform, so self.waveform is an instance *)
(* attribute: it exists only after the caller has assigned it, and reading *)
(* it before that raises AttributeError.                                   *)
(***************************************************************************)
SQ == <<"S", "Q">>
NoAttributes == [has_waveform |-> FALSE, waveform |-> <<>>]

\* SRS_DS345.frequency setter (lines 453-466)
DS345_frequency_setter(val) ==
    IF ~awg2.has_waveform THEN Raise("AttributeError")
    ELSE IF awg2.waveform = NOIS THEN Raise("ValueError")
    ELSE IF Below(val, Hertz(0, 1)) THEN Raise("ValueError")
    ELSE IF (awg2.waveform = SIN \/ awg2.waveform = SQ) /\ Above(val, Hertz(30200000, 0))
    THEN Raise("ValueError")
    ELSE IF awg2.waveform = RAMP /\ Above(val, Hertz(100000, 0)) THEN Raise("ValueError")
    ELSE Write("FREQ ", FormatInt(val))

DS345WaveformArgs == {SIN, SQU, SQ, RAMP, NOIS, DC}
DS345FrequencyArgs == {Hertz(0, 0), Hertz(0, 1), Hertz(1, 500000), Hertz(100000, 0),
                       Hertz(100000, 1), Hertz(30200000, 0), Hertz(30200000, 1)}

\* awg2.waveform = val: an assignment to an instance attribute
Ds345AssignWaveform(val) ==
    /\ awg2' = [has_waveform |-> TRUE, waveform |-> val]
    /\ UNCHANGED <<bus, drv_result, fg, fg_result, log, status_out>>
    /\ UNCHANGED <<daqVars, instVars, mainVars, threadVars, impVars>>

\* awg2.frequency = val
Ds345SetFrequency(val) ==
    LET r == DS345_frequency_setter(val)
    IN  /\ Len(bus) < MaxFgCommands
        /\ fg_result' = [NoFgCall EXCEPT !.call = "frequency", !.frequency = val,
                                         !.kind = r.kind]
        /\ bus' = IF r.raised THEN bus ELSE Append(bus, Command("SRS_DS345", r.cmd, r.arg))
        /\ log' = Logged(r, "SRS_DS345", "frequency", val)
        /\ UNCHANGED <<drv_result, fg, awg2, status_out>>
        /\ UNCHANGED <<daqVars, instVars, mainVars, threadVars, impVars>>

(***************************************************************************)
(* NSC_A1 (rotation_stages.py): the getters.  Each sends a GET request to  *)
(* the rotation stage server and returns the value of the JSON answer,     *)
(* with or without units.                                                  *)
(***************************************************************************)
Quantity(magnitude, units) == [magnitude |-> magnitude, units |-> units]
Number(magnitude) == [magnitude |-> magnitude, units |-> "none"]

\* lines 79-87
angle_getter(reply) == Quantity(reply, "degree")
velocity_getter(reply) == Quantity(reply, "degree/second")

\* lines 109-112 and 118-121: r.json()['max_angle'], r.json()['min_angle']
max_angle_getter(reply) == Number(reply)
min_angle_getter(reply) == Number(reply)

\* The limits the server can answer with, in half degrees.
AngleLimits == {-720, 720}

\* A getter call whose answer from the server is reply and which returned q.
RotGet(name, q) ==
    /\ drv_result' = [inst |-> "rot", call |-> name, arg |-> 0, kind |-> "ok",
                      val |-> q.magnitude, units |-> q.units]
    /\ UNCHANGED <<bus, fg, fg_result, awg2, status_out, log>>
    /\ UNCHANGED <<daqVars, instVars, mainVars, threadVars, impVars>>

RotGetAngle == RotGet("angle", angle_getter(rot_angle))
RotGetVelocity == RotGet("velocity", velocity_getter(rot_velocity))
RotGetMaxAngle(reply) == RotGet("max_angle", max_angle_getter(reply))
RotGetMinAngle(reply) == RotGet("min_angle", min_angle_getter(reply))

(***************************************************************************)
(* NSC_A1 (rotation_stages.py): the setters, lines 89-97 and 114-125.  A   *)
(* setter sends one request to the server; velocity and angle then write   *)
(* a log record, max_angle and min_angle do not.                           *)
(***************************************************************************)
NSC_velocity_setter(val) == Write("/rot/velocity/", val)
NSC_angle_setter(val) == Write("/rot/angle/", val)
max_angle_setter(val) == WriteQuiet("/rot/max_angle/", val)
min_angle_setter(val) == WriteQuiet("/rot/min_angle/", val)

RotSetVelocity(val) ==
    /\ DriverCall("rot", "velocity", val, NSC_velocity_setter(val))
    /\ rot_velocity' = val
    /\ UNCHANGED <<rot_angle, rot_workers, lia_sensitivity, lia_time_constant>>
    /\ UNCHANGED <<daqVars, mainVars, threadVars, impVars>>

RotSetAngle(val) ==
    /\ DriverCall("rot", "angle", val, NSC_angle_setter(val))
    /\ rot_angle' = val
    /\ UNCHANGED <<rot_velocity, rot_workers, lia_sensitivity, lia_time_constant>>
    /\ UNCHANGED <<daqVars, mainVars, threadVars, impVars>>

RotSetMaxAngle(val) ==
    /\ DriverCall("rot", "max_angle", val, max_angle_setter(val))
    /\ UNCHANGED <<daqVars, instVars, mainVars, threadVars, impVars>>

RotSetMinAngle(val) ==
    /\ DriverCall("rot", "min_angle", val, min_angle_setter(val))
    /\ UNCHANGED <<daqVars, instVars, mainVars, threadVars, impVars>>

(***************************************************************************)
(* Bus discovery at import (hardware/__init__.py lines 37-114, and the     *)
(* older src/__init__.py lines 4-40).  A resource is a serial port (ASRL)  *)
(* or an instrument; opening it or querying *IDN? can fail with the        *)
(* VisaIOError that pyvisa raises for an I/O failure.                      *)
(***************************************************************************)
\* The identification strings a wrapper is loaded for, by the name the
\* wrapper object is bound to; "other" is an instrument nothing matches.
KnownInstruments == {"awg", "lia"}
InstrumentNames == KnownInstruments \cup {"other"}
Faults == {"none", "open", "query"}
Resources == [asrl : BOOLEAN, name : InstrumentNames, fault : Faults]

\* The buses list_resources() can return: each instrument is there once.
Buses == {b \in UNION {[1..n -> Resources] : n \in 0..MaxResources} :
              \A m, n \in 1..Len(b) : m # n => b[m].name # b[n].name}

NotImported == [pc |-> "start", legacy |-> FALSE, i |-> 0, resources_dict |-> {},
                wrappers |-> {}]

\* visa.ResourceManager() and rm.list_resources()
ImportListResources(b, legacy) ==
    /\ imp.pc = "start"
    /\ visa_bus' = b
    /\ imp' = [imp EXCEPT !.pc = "loop", !.legacy = legacy, !.i = 1]
    /\ UNCHANGED <<daqVars, instVars, mainVars, threadVars, drvVars>>

\* visa.ResourceManager() raises OSError: caught on line 54 of
\* hardware/__init__.py, not caught in the older src/__init__.py.
ImportNoVisa(legacy) ==
    /\ imp.pc = "start"
    /\ imp' = [imp EXCEPT !.pc = IF legacy THEN "failed" ELSE "load",
                          !.legacy = legacy]
    /\ UNCHANGED visa_bus
    /\ UNCHANGED <<daqVars, instVars, mainVars, threadVars, drvVars>>

\* except pyvisa.errors.VisaIOError: pass -- on to the next resource
AbortDiscovery(i) == Len(visa_bus) + 1
OnVisaIOError(i) == i + 1

\* One iteration of the loop over the resources (lines 41-52).
DiscoverResource ==
    /\ imp.pc = "loop"
    /\ imp.i <= Len(visa_bus)
    /\ LET r == visa_bus[imp.i]
       IN  IF r.asrl /\ ~imp.legacy
           THEN imp' = [imp EXCEPT !.i = @ + 1]
           ELSE IF r.fault # "none"
           THEN imp' = [imp EXCEPT !.i = OnVisaIOError(@)]
           ELSE imp' = [imp EXCEPT !.i = @ + 1,
                                   !.resources_dict = @ \cup {r.name}]
    /\ UNCHANGED visa_bus
    /\ UNCHANGED <<daqVars, instVars, mainVars, threadVars, drvVars>>

\* The wrappers of the instruments that answered (lines 59-114).
LoadModules ==
    /\ \/ imp.pc = "loop" /\ imp.i > Len(visa_bus)
       \/ imp.pc = "load"
    /\ imp' = [imp EXCEPT !.pc = "done",
                          !.wrappers = imp.resources_dict \cap KnownInstruments]
    /\ UNCHANGED visa_bus
    /\ UNCHANGED <<daqVars, instVars, mainVars, threadVars, drvVars>>

(***************************************************************************)
(* The specification of the gyro workflow.                                 *)
(***************************************************************************)
InitAngles == {10}
InitTimeConstants == {100}

Init ==
    /\ daq_task = 0
    /\ daq_rate = 0
    /\ daq_max_voltage = 0
    /\ hw = NoRead
    /\ daq_queue = 0
    /\ daq_result = NoResult
    /\ tasks = [t \in 1..MaxTasks |-> NoTask]
    /\ ntasks = 0
    /\ queues = [t \in 1..MaxTasks |-> <<>>]
    /\ delivered = [t \in 1..MaxTasks |-> <<>>]
    /\ produced = 0
    /\ rot_angle \in InitAngles
    /\ rot_velocity = 2
    /\ rot_workers = <<>>
    /\ lia_sensitivity = 100
    /\ lia_time_constant \in InitTimeConstants
    /\ main_pc = "idle"
    /\ args \in {a \in TombstoneArgs : FALSE} \cup {[seconds |-> 0, minutes |-> 0,
           hours |-> 0, rate |-> 0, autophase |-> FALSE, autohome |-> FALSE,
           scale_factor |-> [auto |-> FALSE, value |-> 0], sensitivity |-> 0,
           max_duration |-> 1]}
    /\ locals = NoLocals
    /\ runs = 0
    /\ trace = <<>>
    /\ tmb = NoTombstone
    /\ gyro_scale_factor = NoScaleFactor
    /\ calibrations = 0
    /\ acq_reads = 0
    /\ run_reads = 0
    /\ run_workers = 0
    /\ threads_started = 0
    /\ det_pc = "idle"
    /\ det_gen = 0
    /\ det_i = 0
    /\ det_chunk = NoChunk
    /\ chk_pc = "idle"
    /\ poll = NoPoll
    /\ iste_run = 0
    /\ stop_data = FALSE
    /\ stop_adev = FALSE
    /\ buf = <<>>
    /\ write_count = <<>>
    /\ buf_writers = {}
    /\ notifications = <<>>
    /\ bus = <<>>
    /\ drv_result = NoCall
    /\ fg = NoGenerator
    /\ fg_result = NoFgCall
    /\ awg2 = NoAttributes
    /\ status_out = NoStatus
    /\ log = <<>>
    /\ visa_bus = <<>>
    /\ imp = NotImported

Next ==
    \/ \E a \in TombstoneArgs : TombstoneCall(a)
    \/ TmbHome
    \/ TmbAutophaseBegin
    \/ TmbAutophaseEnd
    \/ TmbScale
    \/ TmbCalRead
    \/ TmbCalCw
    \/ TmbCalEnd
    \/ TmbAcquireSync
    \/ TmbAcquireAsync
    \/ RotWorker(1)
    \/ DetStart
    \/ DetNext
    \/ DetWrite
    \/ DetCheck
    \/ DetFinish
    \/ ChkWake
    \/ ChkCompute
    \/ ChkStop
    \/ DaqCallback

Spec == Init /\ [][Next]_vars

\* The scheduler runs every thread that can take a step, and the hardware
\* keeps acquiring while the task runs.
FairSpec ==
    /\ Spec
    /\ WF_vars(DetStart) /\ WF_vars(DetNext) /\ WF_vars(DetWrite)
    /\ WF_vars(DetCheck) /\ WF_vars(DetFinish)
    /\ WF_vars(ChkWake) /\ WF_vars(ChkCompute) /\ WF_vars(ChkStop)
    /\ WF_vars(DaqCallback)

(***************************************************************************)
(* The specification of the DAQ used directly: read(), next() on the       *)
(* generators it returned, stop(), and the callback.                       *)
(***************************************************************************)
SecondsArgs == {1, 2}
DaqRateArgs == {0, 1, 2}
OversamplingArgs == {1, 2}

DaqRead(seconds, rate, oversampling_ratio, asynchronous) ==
    /\ UNCHANGED extVars
    /\ ~TaskRunning
    /\ asynchronous => ntasks < MaxTasks
    /\ read(seconds, rate, oversampling_ratio, asynchronous)
    /\ UNCHANGED <<instVars, mainVars, threadVars>>

DaqNext(g) ==
    /\ UNCHANGED extVars
    /\ g \in 1..ntasks
    /\ GenNext(g)
    /\ UNCHANGED <<daq_task, daq_rate, daq_max_voltage, hw, daq_queue, daq_result,
                   tasks, ntasks, produced>>
    /\ UNCHANGED <<instVars, mainVars, threadVars>>

DaqStop ==
    /\ UNCHANGED extVars
    /\ stop
    /\ UNCHANGED <<instVars, mainVars, threadVars>>

NextDaq ==
    \/ \E seconds \in SecondsArgs, rate \in DaqRateArgs,
          oversampling_ratio \in OversamplingArgs, asynchronous \in BOOLEAN :
            DaqRead(seconds, rate, oversampling_ratio, asynchronous)
    \/ \E g \in 1..MaxTasks : DaqNext(g)
    \/ DaqStop
    \/ DaqCallback

SpecDaq == Init /\ [][NextDaq]_vars

(***************************************************************************)
(* The specification of the DAQ with read() called at any time, also while *)
(* an asynchronous task runs.  The device has one input channel: the new   *)
(* task starts if the driver binding released the replaced task object     *)
(* (fault "none"), and StartTask raises DAQError if the replaced task      *)
(* still holds the channel (fault "start").                                *)
(***************************************************************************)
StartOutcomes == {"none", "start"}

DaqReadWhileRunning(seconds, rate, oversampling_ratio, asynchronous, fault) ==
    /\ TaskRunning
    /\ ntasks < MaxTasks
    /\ fault = "none" => \A t \in 1..MaxTasks : tasks[t].state = "running" => t = daq_task
    /\ NI_9215_read(seconds, rate, 0, 0, oversampling_ratio, asynchronous, fault)
    /\ UNCHANGED <<instVars, mainVars, threadVars, extVars>>

NextDaqSeq ==
    \/ \E seconds \in SecondsArgs, rate \in DaqRateArgs,
          oversampling_ratio \in OversamplingArgs, asynchronous \in BOOLEAN :
            DaqRead(seconds, rate, oversampling_ratio, asynchronous)
    \/ \E seconds \in SecondsArgs, rate \in DaqRateArgs,
          oversampling_ratio \in OversamplingArgs, asynchronous \in BOOLEAN,
          fault \in StartOutcomes :
            DaqReadWhileRunning(seconds, rate, oversampling_ratio, asynchronous, fault)
    \/ \E g \in 1..MaxTasks : DaqNext(g)
    \/ DaqStop
    \/ DaqCallback

SpecDaqSeq == Init /\ [][NextDaqSeq]_vars

(***************************************************************************)
(* The specification of the DAQ with every argument of read(), default     *)
(* settings on the DAQ object, both implementations of read(), and a       *)
(* driver that can fail.                                                   *)
(***************************************************************************)
CfgSecondsArgs == {2}
MaxVoltageArgs == {0, 5}
TimeoutArgs == {-1, 0, 7}
DriverFaults == {"none", "start", "read"}
OwnMaxVoltages == {0, 4}
OwnRates == {0, 1, 3}

\* NI_9215(max_voltage=..., rate=...), or the attributes set on the object
\* before its first use.
DaqNew(max_voltage, rate) ==
    /\ hw = NoRead
    /\ ntasks = 0
    /\ daq_rate = 0
    /\ daq_max_voltage = 0
    /\ max_voltage # 0 \/ rate # 0
    /\ daq_max_voltage' = max_voltage
    /\ daq_rate' = rate
    /\ UNCHANGED <<daq_task, hw, daq_queue, daq_result, tasks, ntasks, queues,
                   delivered, produced>>
    /\ UNCHANGED <<instVars, mainVars, threadVars, extVars>>

\* The first read() on the object, with any arguments.
DaqReadAll(seconds, rate, max_voltage, timeout, oversampling_ratio, asynchronous, fault) ==
    /\ hw = NoRead
    /\ ~TaskRunning
    /\ (asynchronous \/ fault # "none") => ntasks < MaxTasks
    /\ fault = "read" => ~asynchronous
    /\ NI_9215_read(seconds, rate, max_voltage, timeout, oversampling_ratio,
                    asynchronous, fault)
    /\ UNCHANGED <<instVars, mainVars, threadVars, extVars>>

LegacyRead(seconds, rate, max_voltage, timeout, fault) ==
    /\ hw = NoRead
    /\ ~TaskRunning
    /\ legacy_read(seconds, rate, max_voltage, timeout, fault)
    /\ UNCHANGED <<instVars, mainVars, threadVars, extVars>>

NextDaqCfg ==
    \/ \E max_voltage \in OwnMaxVoltages, rate \in OwnRates : DaqNew(max_voltage, rate)
    \/ \E seconds \in CfgSecondsArgs, rate \in DaqRateArgs,
          max_voltage \in MaxVoltageArgs, timeout \in TimeoutArgs,
          oversampling_ratio \in OversamplingArgs, asynchronous \in BOOLEAN,
          fault \in DriverFaults :
            DaqReadAll(seconds, rate, max_voltage, timeout, oversampling_ratio,
                       asynchronous, fault)
    \/ \E seconds \in CfgSecondsArgs, rate \in DaqRateArgs,
          max_voltage \in MaxVoltageArgs, timeout \in TimeoutArgs,
          fault \in DriverFaults :
            LegacyRead(seconds, rate, max_voltage, timeout, fault)
    \/ DaqStop
    \/ DaqCallback

SpecDaqCfg == Init /\ [][NextDaqCfg]_vars

(***************************************************************************)
(* The specification of the instrument drivers used directly.              *)
(***************************************************************************)
NextDrv ==
    \/ \E val \in PhaseArgs : LiaSetPhase(val)
    \/ \E val \in SensitivityArgs : LiaSetSensitivity(val)
    \/ \E val \in TimeConstantArgs : LiaSetTimeConstant(val)
    \/ RotGetAngle
    \/ RotGetVelocity
    \/ \E reply \in AngleLimits : RotGetMaxAngle(reply)
    \/ \E reply \in AngleLimits : RotGetMinAngle(reply)

SpecDrv == Init /\ [][NextDrv]_vars

(***************************************************************************)
(* The specification of the import of the package.                         *)
(***************************************************************************)
NextImport ==
    \/ \E b \in Buses, legacy \in BOOLEAN : ImportListResources(b, legacy)
    \/ \E legacy \in BOOLEAN : ImportNoVisa(legacy)
    \/ DiscoverResource
    \/ LoadModules

SpecImport == Init /\ [][NextImport]_vars

(***************************************************************************)
(* The specification of the function generator driver.                     *)
(***************************************************************************)
NextFg ==
    \/ \E model \in GeneratorModels : FgOpen(model)
    \/ \E val \in WaveformArgs : FgSetWaveform(val)
    \/ FgGetWaveform
    \/ \E val \in FrequencyArgs : FgSetFrequency(val)
    \/ FgGetFrequency

SpecFg == Init /\ [][NextFg]_vars

(***************************************************************************)
(* The specification of the SRS_DS345 driver.                              *)
(***************************************************************************)
NextDs345 ==
    \/ \E val \in DS345WaveformArgs : Ds345AssignWaveform(val)
    \/ \E val \in DS345FrequencyArgs : Ds345SetFrequency(val)

SpecDs345 == Init /\ [][NextDs345]_vars

(***************************************************************************)
(* The specification of the waveform upload of the function generators.    *)
(***************************************************************************)
NextUpload ==
    \/ \E model \in GeneratorModels : FgOpen(model)
    \/ \E x \in Arrays : FgUpload(x[1], x[2])
    \/ \E x \in Arrays : FgUploadAs(x[1], x[2], PULSEWAVEFORM)

SpecUpload == Init /\ [][NextUpload]_vars

(***************************************************************************)
(* The specification of the SR844 offset setters.                          *)
(***************************************************************************)
NextOffset ==
    \/ \E val \in OffsetArgs : LiaSetXOffset(val)
    \/ \E val \in OffsetArgs : LiaSetYOffset(val)

SpecOffset == Init /\ [][NextOffset]_vars

(***************************************************************************)
(* The specification of SRS_SR844.get_status.                              *)
(***************************************************************************)
NextStatus ==
    \E status \in StatusWords, given, verbose \in BOOLEAN :
        LiaGetStatus(status, given, verbose)

SpecStatus == Init /\ [][NextStatus]_vars

(***************************************************************************)
(* The specification of the setters of the logging wrappers: the lock-in   *)
(* amplifier and the rotation stage, with one accepted and one refused     *)
(* value where the setter can refuse.                                      *)
(***************************************************************************)
LogPhaseArgs == {0, 181}
LogTimeConstantArgs == {2, 100}
LogOffsetArgs == {0, 11001}
LogRotArgs == {2}

NextLog ==
    \/ \E val \in LogPhaseArgs : LiaSetPhase(val)
    \/ \E val \in LogTimeConstantArgs : LiaSetTimeConstant(val)
    \/ \E val \in LogOffsetArgs : LiaSetXOffset(val)
    \/ \E val \in LogOffsetArgs : LiaSetYOffset(val)
    \/ \E val \in LogRotArgs : RotSetVelocity(val)
    \/ \E val \in LogRotArgs : RotSetAngle(val)
    \/ \E val \in AngleLimits : RotSetMaxAngle(val)
    \/ \E val \in AngleLimits : RotSetMinAngle(val)

SpecLog == Init /\ [][NextLog]_vars

(***************************************************************************)
(* Properties.                                                             *)
(***************************************************************************)
Cells == 1..Len(buf)
Written == {k \in Cells : write_count[k] > 0}
Last(seq) == seq[Len(seq)]
SampleTimeError == "InsufficientSampleTimeError"
SamplingRateError == "InsufficientSamplingRateError"
\* The checker thread takes its poll step (lines 322-332).
CheckerPolls == chk_pc = "compute" /\ chk_pc' # "compute"

\* C1: once the collector's stop event is set, the collector writes no
\* further cell of the tombstone buffer.
C1_NoWriteAfterStop == [][stop_data => write_count' = write_count]_vars

\* C2: once stop has been signalled, the collector and the checker both
\* eventually terminate.
C2_StopLeadsToTermination == stop_data ~> (det_pc = "done" /\ chk_pc = "done")

\* C2 witness: the checker signalled stop, and the collector saw the flag
\* before its buffer was full and returned.
C2_Witness ==
    /\ stop_data
    /\ det_pc = "done"
    /\ chk_pc = "done"
    /\ Len(buf) > 0
    /\ det_i < Len(buf)
    /\ notifications = <<"Reached ADev Min">>

\* C3: only the collector writes cells of the tombstone buffer: every
\* change of the buffer after its allocation is the collector's write step,
\* and a step of the checker leaves every cell as it was.
C3_SingleWriter ==
    /\ [](buf_writers \subseteq {"collector"})
    /\ [][(buf' # buf \/ write_count' # write_count) =>
            \/ main_pc = "acquire"
            \/ det_pc = "write" /\ det_pc' = "check" /\ chk_pc' = chk_pc]_vars
    /\ [][chk_pc' # chk_pc /\ chk_pc # "idle" =>
            buf' = buf /\ write_count' = write_count]_vars

\* C3 witness: the collector has written cells and the checker has read the
\* buffer for a poll.
C3_Witness ==
    /\ Written # {}
    /\ buf_writers = {"collector"}
    /\ poll.kind = "ratio"

\* C4: a poll whose ratio 10*log10(maxdev/drift) exceeds the 5 dB threshold
\* ((maxdev/drift)^2 > 10) notifies and goes on to signal stop and exit; a
\* poll whose ratio does not exceed it signals nothing and sleeps again; a
\* checker that wakes without the stop flag set polls.
C4_RatioDecides ==
    /\ [][CheckerPolls /\ poll'.kind = "ratio" =>
            IF poll'.maxdev * poll'.maxdev > 10 * poll'.drift * poll'.drift
            THEN /\ chk_pc' = "stop"
                 /\ notifications' = Append(notifications, "Reached ADev Min")
            ELSE /\ chk_pc' = "sleep"
                 /\ UNCHANGED <<stop_data, stop_adev, notifications>>]_vars
    /\ [][chk_pc = "stop" /\ chk_pc' # "stop" =>
            chk_pc' = "done" /\ stop_data' /\ stop_adev']_vars
    /\ [][chk_pc = "sleep" /\ chk_pc' # "sleep" /\ ~stop_adev =>
            chk_pc' = "compute"]_vars

\* C4 witness: a poll found the ratio above the threshold, and the checker
\* has notified, signalled stop and exited.
C4_Witness ==
    /\ poll.kind = "ratio"
    /\ poll.maxdev * poll.maxdev > 10 * poll.drift * poll.drift
    /\ chk_pc = "done"
    /\ stop_data
    /\ notifications # <<>>
    /\ Last(notifications) = "Reached ADev Min"

\* C5: a poll that meets InsufficientSampleTimeError signals nothing,
\* notifies nothing and sends the checker back to sleep for the next poll.
C5_SampleTimeTolerated ==
    [][CheckerPolls /\ poll'.kind = SampleTimeError =>
         /\ chk_pc' = "sleep"
         /\ UNCHANGED <<stop_data, stop_adev, notifications>>]_vars

\* C5 witness: several consecutive polls met the error and the checker is
\* asleep again with no stop signalled.
C5_Witness ==
    /\ iste_run >= 2
    /\ poll.kind = SampleTimeError
    /\ chk_pc = "sleep"
    /\ ~stop_data
    /\ ~stop_adev
    /\ notifications = <<>>

\* C6: a poll that meets InsufficientSamplingRateError notifies the
\* failure, and the checker then signals stop and exits without another
\* poll.
C6_SamplingRateTerminal ==
    /\ [][CheckerPolls /\ poll'.kind = SamplingRateError =>
            /\ chk_pc' = "stop"
            /\ notifications' = Append(notifications,
                                  "Sampling rate too small. Cannot resolve drift")]_vars
    /\ [][chk_pc = "stop" /\ poll.kind = SamplingRateError =>
            /\ chk_pc' \in {"stop", "done"}
            /\ poll' = poll
            /\ chk_pc' = "done" => stop_data' /\ stop_adev']_vars
    /\ [][chk_pc = "done" => chk_pc' = "done" /\ poll' = poll]_vars

\* C6 witness: the sampling-rate error was met, reported, and the checker
\* has signalled stop and exited.
C6_Witness ==
    /\ poll.kind = SamplingRateError
    /\ chk_pc = "done"
    /\ stop_data
    /\ stop_adev
    /\ notifications # <<>>
    /\ Last(notifications) = "Sampling rate too small. Cannot resolve drift"

\* C7 as stated: with a non-zero duration tombstone returns after one
\* blocking DAQ read and no thread started; with no duration it returns
\* after starting exactly two threads.
C7_AsStated ==
    main_pc = "returned" =>
        IF locals.duration # 0
        THEN tmb.mode = "sync" /\ run_reads = 1 /\ threads_started + run_workers = 0
        ELSE tmb.mode = "async" /\ threads_started + run_workers = 2

\* C7 amended: with a non-zero duration tombstone returns a filled tombstone
\* after one blocking acquisition read and starts no collector or checker
\* thread; with no duration it makes no acquisition read and starts exactly
\* the collector and the checker.  Autophase and calibration add one rotation
\* worker thread per background move, and calibration adds two blocking reads.
C7_SyncOrTwoThreads ==
    main_pc = "returned" =>
        /\ run_workers = (IF args.autophase THEN 1 ELSE 0) + 2 * calibrations
        /\ run_reads = acq_reads + 2 * calibrations
        /\ IF locals.duration # 0
           THEN /\ tmb.mode = "sync"
                /\ acq_reads = 1
                /\ threads_started = 0
                /\ tmb.len = locals.duration * tmb.rate
           ELSE /\ tmb.mode = "async"
                /\ acq_reads = 0
                /\ threads_started = 2
                /\ det_pc # "idle"
                /\ chk_pc # "idle"

\* C7 witness: a fixed-duration run that calibrated its scale factor has
\* returned: three blocking reads, two rotation workers, no collector.
C7_Witness ==
    /\ main_pc = "returned"
    /\ locals.duration # 0
    /\ calibrations = 1
    /\ run_reads = 3
    /\ run_workers >= 2
    /\ threads_started = 0

\* C9: calibration runs once when no scale factor is supplied and never
\* when one is; the tombstone carries the supplied or the calibrated value;
\* the Gyro object never holds a scale factor.
C9_ScaleFactorPerRun ==
    /\ gyro_scale_factor = NoScaleFactor
    /\ calibrations <= 1
    /\ (args.scale_factor.auto \/ args.scale_factor.value # 0) => calibrations = 0
    /\ main_pc = "returned" =>
         /\ ~args.scale_factor.auto
         /\ calibrations = (IF args.scale_factor.value = 0 THEN 1 ELSE 0)
         /\ tmb.scale_factor = (IF args.scale_factor.value # 0
                                THEN args.scale_factor.value ELSE locals.calibrated)
         /\ tmb.scale_factor # 0

\* C9 witness: a second run without a scale factor has calibrated again and
\* returned a tombstone with the value it measured.
C9_Witness ==
    /\ runs = 2
    /\ main_pc = "returned"
    /\ args.scale_factor.value = 0
    /\ calibrations = 1
    /\ tmb.scale_factor = locals.calibrated
    /\ locals.calibrated \in MeasuredScaleFactors

\* C10: the steps of tombstone happen in the order home, autophase,
\* calibration, acquisition: each step begins only after the requested
\* earlier ones have ended, and the threads start only with the acquisition.
Rank(e) == CASE e = "home" -> 1
             [] e = "autophase_begin" -> 2
             [] e = "autophase_end" -> 3
             [] e = "cal_begin" -> 4
             [] e = "cal_end" -> 5
             [] e = "acquire" -> 6
Happened(e) == \E n \in 1..Len(trace) : trace[n] = e
CalibrationNeeded == ~args.scale_factor.auto /\ args.scale_factor.value = 0
ChunksOf(g) == delivered[g] \o queues[g]
C8_ChunksInOrder ==
    /\ \A g \in 1..MaxTasks :
         /\ \A m, n \in 1..Len(ChunksOf(g)) :
                m < n => ChunksOf(g)[m].seq < ChunksOf(g)[n].seq
         /\ \A n \in 1..Len(delivered[g]) :
              LET c == delivered[g][n]
              IN  /\ c.task = g
                  /\ c.seq \in 1..produced
                  /\ c.len = tasks[g].rate * tasks[g].seconds
                  /\ c.len > 0
    /\ \A n \in 1..produced :
         Cardinality({<<g, m>> \in (1..MaxTasks) \X (1..MaxChunks) :
                         m <= Len(ChunksOf(g)) /\ ChunksOf(g)[m].seq = n}) = 1

\* C8 witness: a generator has delivered two chunks while a third waits.
C8_Witness ==
    \E g \in 1..MaxTasks :
        /\ Len(delivered[g]) >= 2
        /\ queues[g] # <<>>
        /\ tasks[g].oversampling_ratio > 1
        /\ tasks[g].seconds > 1

\* A driver call was made in this step and ended as drv_result' tells.
Called(call) == drv_result'.call = call /\ (drv_result' # drv_result \/ bus' # bus)
Sent(inst, cmd, arg) == bus' = Append(bus, Command(inst, cmd, arg))
Rejected == drv_result'.kind = "ValueError" /\ bus' = bus

\* C11: the SR844 setters raise ValueError and send nothing for a phase
\* outside [-180, 180] degrees, a sensitivity that is not a Vrms value of the
\* table, and a time constant that is not in the list; a valid value is sent
\* as PHAS value, SENS key, OFLT index.
C11_SettersValidate ==
    /\ [][Called("phase") =>
            LET val == drv_result'.arg
            IN  IF -180 <= val /\ val <= 180
                THEN Sent("lia", "PHAS", val) /\ drv_result'.kind = "ok"
                ELSE Rejected]_vars
    /\ [][Called("sensitivity") =>
            LET val == drv_result'.arg
            IN  IF \E key \in 0..14 : SensitivityVrms[key + 1] = val
                THEN /\ \E key \in 0..14 : /\ SensitivityVrms[key + 1] = val
                                           /\ Sent("lia", "SENS", key)
                     /\ drv_result'.kind = "ok"
                ELSE Rejected]_vars
    /\ [][Called("time_constant") =>
            LET val == drv_result'.arg
            IN  IF \E key \in 0..17 : TimeConstantList[key + 1] = val
                THEN /\ \E key \in 0..17 : /\ TimeConstantList[key + 1] = val
                                           /\ Sent("lia", "OFLT", key)
                     /\ drv_result'.kind = "ok"
                ELSE Rejected]_vars

\* C11 witness: an invalid time constant was rejected after a valid
\* sensitivity and a valid phase had been sent.
C11_Witness ==
    /\ bus = <<Command("lia", "SENS", 11), Command("lia", "PHAS", -180)>>
    /\ drv_result.call = "time_constant"
    /\ drv_result.arg = 2
    /\ drv_result.kind = "ValueError"

\* C12: a resource that fails to open or to answer is skipped: discovery
\* goes on to the next resource, the import never fails once the resources
\* are listed, and at its end exactly the known instruments that answered
\* have a wrapper object.
Answered(n) ==
    /\ visa_bus[n].fault = "none"
    /\ imp.legacy \/ ~visa_bus[n].asrl
C13_DriverErrorsCaught ==
    /\ daq_result.kind # "DAQError"
    /\ hw.error # "propagated"
    /\ \A t \in 1..MaxTasks :
         ~tasks[t].asynchronous => tasks[t].state \in {"none", "cleared"}
    /\ hw.impl # "none" /\ ~TaskRunning => daq_task = 0

\* C14: when stop() has returned, the DAQ holds no task and no task is
\* running that could put a further chunk on the queue, whatever reads
\* came before the stop().
C14_StopStopsAcquisition ==
    daq_result.kind = "stopped" =>
        /\ daq_task = 0
        /\ \A t \in 1..MaxTasks : tasks[t].state # "running"

\* C15: the samples of a read are scaled by the caller's max_voltage when
\* one is given, else by the DAQ object's own max_voltage when it is set,
\* else by the lock-in amplifier's sensitivity, in both implementations.
C15_MaxVoltageSource ==
    hw.scale # 0 =>
        hw.scale = IF hw.max_voltage_arg # 0 THEN hw.max_voltage_arg
                   ELSE IF daq_max_voltage # 0 THEN daq_max_voltage
                   ELSE lia_sensitivity

\* C16: the hardware read gets a finite timeout computed by read when the
\* timeout argument is 0, and the argument itself otherwise (-1: none).
C16_TimeoutArgument ==
    hw.timeout # 0 =>
        IF hw.timeout_arg = 0 THEN hw.timeout > 0
        ELSE hw.timeout = hw.timeout_arg

\* C17: every task read creates is configured with a hardware sampling
\* frequency of at least 2 Hz, wherever the rate comes from.
C17_MinimumFrequency ==
    /\ hw.freq # 0 => hw.freq >= 2
    /\ \A t \in 1..MaxTasks :
         tasks[t].state # "none" =>
             tasks[t].rate * tasks[t].oversampling_ratio >= 2

\* C18: every getter of the rotation stage returns a quantity with units:
\* angle, max_angle and min_angle in degrees, velocity in degrees per second.
C18_GettersHaveUnits ==
    drv_result.inst = "rot" =>
        /\ drv_result.call \in {"angle", "max_angle", "min_angle"} =>
               drv_result.units = "degree"
        /\ drv_result.call = "velocity" => drv_result.units = "degree/second"


\* This step is a call of the named property of the function generator.
FgCalled(call) == fg_result'.call = call /\ (fg_result' # fg_result \/ bus' # bus)

\* The waveform was just set to val, and this step reads it back.
ReadBackAfterSet(val) ==
    /\ fg_result.call = "waveform"
    /\ fg_result.kind = "ok"
    /\ fg_result.waveform = val
    /\ FgCalled("waveform?")

BasicWaveforms == {SIN, SQU, RAMP, PULS, NOIS, DC, USER}
StartsWithUSER(val) == Len(val) >= 4 /\ SubSeq(val, 1, 4) = USER

OutsideLimits(model, wf, val) ==
    IF model = "Agilent_33250A"
    THEN \/ Below(val, Hertz(0, 1))
         \/ wf \in {SIN, SQU} /\ Above(val, Hertz(80000000, 0))
         \/ wf = PULS /\ (Below(val, Hertz(0, 500)) \/ Above(val, Hertz(50000000, 0)))
    ELSE \/ Below(val, Hertz(0, 100))
         \/ wf \in {SIN, SQU} /\ Above(val, Hertz(15000000, 0))
         \/ wf = RAMP /\ Above(val, Hertz(100000, 0))

\* C20: the frequency setters of both generators raise ValueError and send
\* no command exactly when the requested frequency is outside the limits for
\* the current waveform; every other requested frequency is the frequency
\* of the FREQ command sent to the instrument.
C20_FrequencyLimits ==
    [][FgCalled("frequency") =>
        LET val == fg_result'.frequency
        IN  IF OutsideLimits(fg.model, fg.func, val)
            THEN fg_result'.kind = "ValueError" /\ bus' = bus
            ELSE /\ fg_result'.kind = "ok"
                 /\ val.uhz = 0
                 /\ bus' = Append(bus, Command(fg.model, "FREQ ", Digits(val.hz)))]_vars


\* The limits C21 states for the SRS_DS345, for the waveform attribute wf.
DS345OutsideLimits(wf, val) ==
    \/ wf = NOIS
    \/ Below(val, Hertz(0, 1))
    \/ wf \in {SIN, SQU} /\ Above(val, Hertz(30200000, 0))
    \/ wf = RAMP /\ Above(val, Hertz(100000, 0))

\* C21: the SRS_DS345 frequency setter raises ValueError and sends no command
\* when the waveform is NOIS, when the frequency is below 1 uHz, when the
\* waveform is sine or square and the frequency is above 30.2 MHz, and when
\* the waveform is RAMP and the frequency is above 100 kHz; otherwise it
\* sends the frequency to the instrument.  Stated for an object whose
\* waveform attribute holds a name of the basic list, with any FREQ command counted as
\* the frequency being sent.
C21_DS345FrequencyLimits ==
    [][(FgCalled("frequency") /\ awg2.has_waveform /\ awg2.waveform \in BasicWaveforms) =>
        LET val == fg_result'.frequency
        IN  IF DS345OutsideLimits(awg2.waveform, val)
            THEN fg_result'.kind = "ValueError" /\ bus' = bus
            ELSE /\ fg_result'.kind = "ok"
                 /\ Len(bus') = Len(bus) + 1
                 /\ bus'[Len(bus')].cmd = "FREQ "]_vars


\* C22: after a frequency setter of the function generator accepts a value f,
\* the frequency transmitted to the instrument equals f and equals the value
\* written to the log, and reading frequency back right after returns the
\* logged value; for every accepted f, fractions of a hertz included.
C22_TransmittedEqualsLogged ==
    /\ [][(FgCalled("frequency") /\ fg_result'.kind = "ok") =>
            LET f == fg_result'.frequency
                sent == bus'[Len(bus')]
                rec == log'[Len(log')]
            IN  /\ Len(bus') = Len(bus) + 1 /\ Len(log') = Len(log) + 1
                /\ rec.setting = "frequency" /\ rec.val = f
                /\ sent.cmd = "FREQ " /\ Hertz(ParseInt(sent.arg), 0) = f]_vars
    /\ [][(fg_result.call = "frequency" /\ fg_result.kind = "ok"
           /\ FgCalled("frequency?")) =>
            fg_result'.frequency = log[Len(log)].val]_vars


\* Every value of the array lies in [-1, +1].
AllInRange(points_array) ==
    \A k \in 1..Len(points_array) :
        ~points_array[k].nan /\ -1 <= points_array[k].v /\ points_array[k].v <= 1

\* C23: upload() sends a point array only when every value lies in [-1, +1],
\* and otherwise raises and sends nothing; upload_as() uploads first and
\* saves under the given name second, and when the upload is rejected no
\* DATA:COPY command is sent.
C23_UploadValidates ==
    /\ [][FgCalled("upload") =>
            LET points_array == fg_result'.points
            IN  /\ bus' # bus => AllInRange(points_array)
                /\ ~AllInRange(points_array) => fg_result'.kind # "ok" /\ bus' = bus]_vars
    /\ [][FgCalled("upload_as") =>
            LET points_array == fg_result'.points
            IN  IF fg_result'.kind = "ok"
                THEN /\ AllInRange(points_array)
                     /\ Len(bus') = Len(bus) + 2
                     /\ bus'[Len(bus) + 1].cmd = "DATA VOLATILE, "
                     /\ bus'[Len(bus) + 2].cmd = "DATA:COPY "
                     /\ bus'[Len(bus) + 2].arg = fg_result'.waveform
                ELSE bus' = bus]_vars


\* C24: the SR844 x_offset and y_offset setters accept every value between
\* -110% and 110% inclusive and send it to the instrument, and raise
\* ValueError without sending anything for every value outside that range.
C24_OffsetRange ==
    /\ [][Called("x_offset") =>
            LET val == drv_result'.arg
            IN  IF Percent(-110) <= val /\ val <= Percent(110)
                THEN Sent("lia", "DOFF 1,0,", val) /\ drv_result'.kind = "ok"
                ELSE Rejected]_vars
    /\ [][Called("y_offset") =>
            LET val == drv_result'.arg
            IN  IF Percent(-110) <= val /\ val <= Percent(110)
                THEN Sent("lia", "DOFF 2,0,", val) /\ drv_result'.kind = "ok"
                ELSE Rejected]_vars


\* Bit k of the word, bit 0 the least significant.
BitSet(word, k) == (word \div Pow2(k)) % 2 = 1

\* C25: get_status returns the status word as a 16-character binary string
\* and, when interpreting it, reports for a 16-bit status word exactly the
\* status-dictionary entries k whose bit k (bit 0 = ULK, the least
\* significant bit) is set in the word.
C25_StatusBitsReported ==
    status_out.called =>
        /\ Len(status_out.status_bits) = StatusBits
        /\ \A k \in 1..StatusBits : status_out.status_bits[k] \in {"0", "1"}
        /\ (status_out.printed # <<>> \/ status_out.status = 0) =>
              {status_out.printed[n] : n \in 1..Len(status_out.printed)}
                  = {k \in 0..(StatusBits - 1) : BitSet(status_out.status, k)}


\* This step is a setter call on the lock-in amplifier or the rotation stage.
SetterCalled ==
    \/ bus' # bus
    \/ drv_result' # drv_result /\ drv_result'.kind # "ok"

\* C26: the log is append-only and records settings: every setter call that
\* succeeds appends one record naming the setting and the value set, a
\* setter call that raises appends no record, and no step removes or
\* rewrites an earlier record.
C26_LogRecordsSettings ==
    /\ [][SetterCalled =>
            IF drv_result'.kind = "ok"
            THEN log' = Append(log, Record(drv_result'.inst, drv_result'.call,
                                           drv_result'.arg))
            ELSE log' = log]_vars
    /\ [][Len(log') >= Len(log) /\ SubSeq(log', 1, Len(log)) = log]_vars


\* C27: in the collector the write index always equals the number of samples
\* written so far and never exceeds the buffer length: the cells written are
\* exactly the first det_i cells of the buffer, each written once, and a
\* chunk is only ever written when it ends inside the buffer.
C27_WriteIndexCountsSamples ==
    /\ det_i <= Len(buf)
    /\ \A k \in 1..Len(buf) : write_count[k] = (IF k <= det_i THEN 1 ELSE 0)
    /\ det_pc = "write" => det_i + det_chunk.len <= Len(buf)

\* Reached: two chunks were written one after the other and filled a buffer
\* of four cells, the second chunk in the cells after the first.
C27_Witness ==
    /\ Len(buf) = 4
    /\ det_i = 4
    /\ buf[1] = buf[2] /\ buf[3] = buf[4] /\ buf[2] # buf[3]
    /\ \A k \in 1..4 : write_count[k] = 1


\* The checker has signalled, or is about to signal, stop: it has notified
\* one of its two messages.
CheckerSignalled ==
    \E n \in 1..Len(notifications) :
        notifications[n] \in {"Reached ADev Min",
                              "Sampling rate too small. Cannot resolve drift"}
MaxDurationReported ==
    \E n \in 1..Len(notifications) : notifications[n] = "Reached max duration"

\* C28: an open-ended tombstone run ends by itself at its maximum duration:
\* the collector never writes more than rate*max_duration samples; when the
\* checker does not signal stop, the collector ends having written
\* rate*max_duration samples, having reported that the maximum duration was
\* reached and having signalled stop on the tombstone; and once the
\* collector has left its loop at the maximum duration, the collector and
\* the checker both terminate.
C28_SelfTerminates ==
    /\ [](det_i <= locals.rate * locals.max_duration)
    /\ []((det_pc = "done" /\ ~CheckerSignalled) =>
            /\ det_i = locals.rate * locals.max_duration
            /\ MaxDurationReported
            /\ stop_data /\ stop_adev)
    /\ (det_pc = "finish") ~> (det_pc = "done" /\ chk_pc = "done")
    /\ (det_pc = "start") ~> (det_pc = "done" /\ chk_pc = "done")

\* Reached: the checker never signalled, the collector filled the buffer,
\* reported the maximum duration and signalled stop, and the checker ended.
C28_Witness ==
    /\ det_pc = "done"
    /\ chk_pc = "done"
    /\ notifications = <<"Reached max duration">>
    /\ Len(buf) > 0
    /\ det_i = Len(buf)
    /\ stop_adev


\* get_scale_factor is between its first setting and its return.
InCalibration == main_pc \in {"cal_read1", "cal_cw", "cal_read2"}

RECURSIVE SumOf(_)
SumOf(seq) == IF seq = <<>> THEN 0 ELSE Head(seq) + SumOf(Tail(seq))

\* Where the stage ends up once every move commanded so far has been made
\* and the clockwise move of the calibration, if still to come, as well.
FinalAngle ==
    rot_angle + SumOf(rot_workers)
        + (IF main_pc \in {"cal_read1", "cal_cw"} THEN CalMove ELSE 0)

=============================================================================
